---- MODULE Spec2Model ----
(***************************************************************************)
(* clam: a small POSIX-like shell.  This module models the tree-walking    *)
(* executor (src/src/executor.rs) over the AST of src/src/ast.rs.          *)
(*                                                                         *)
(* Text is modelled as a sequence of one-character strings, so that        *)
(* variable expansion and word splitting scan characters as the code does. *)
(* The host process launcher is nondeterministic: every launch can have    *)
(* any of the outcomes the host can report, so every operation of the      *)
(* executor yields the set of the ways it can end.                         *)
(*                                                                         *)
(* The lexer (src/src/lexer.rs), the parser (src/src/parser.rs) and the    *)
(* driving loop (src/src/main.rs) are modelled over the same text.         *)
(***************************************************************************)
EXTENDS Integers, Sequences, FiniteSets, TLC

VARIABLES
    env_vars,           \* Executor.env_vars: the persistent variable mapping
    last_exit_status,   \* Executor.last_exit_status
    pc,                 \* "idle", or "executed" when execute() has just returned
    command,            \* the command of the last execute() call
    result,             \* what that call returned
    log,                \* what that call did, in order; in the driving loop, the
                        \* turns of the loop over the commands of the last line
    assigned,           \* history: the last value bound to each name so far
    text,               \* the text handed to Lexer::new
    lexed,              \* what tokenize() returned for it
    parsed,             \* what the parser returned for the tokens
    typed               \* the pieces the text was typed in

vars == <<env_vars, last_exit_status, pc, command, result, log, assigned,
          text, lexed, parsed, typed>>

(***************************************************************************)
(* Bounds of the model.                                                    *)
(***************************************************************************)
\* runs of the body of one while/until loop within one execute() call
MaxIter == 2

\* characters of a text handed to the lexer, over all the characters
MaxLen == 3

\* characters of a text handed to the lexer, over the core characters
MaxLong == 5

\* pieces of a text handed to the lexer and the parser
MaxWords == 4

(***************************************************************************)
(* Characters and text.                                                    *)
(***************************************************************************)
\* char::is_alphanumeric over the characters the model uses
IsAlphanumeric(c) == c \in {"A", "B", "a", "b", "h", "p", "1"}

\* the characters str::split_whitespace splits on
IsWhitespace(c) == c \in {" ", "\t", "\n"}

\* std::env of the shell process: the host environment the shell was started in
HostEnv == (<<"B">> :> <<"h">>)

(***************************************************************************)
(* ast.rs: constructors of the Command variants.                           *)
(***************************************************************************)
Assignment(name, value) == [name |-> name, value |-> value]

Word(value) == [value |-> value]

Redirection(kind, fd, target) == [kind |-> kind, fd |-> fd, target |-> target]

Simple(assignments, words, redirections) ==
    [type |-> "Simple", assignments |-> assignments, words |-> words,
     redirections |-> redirections]

Pipeline(negated, commands) ==
    [type |-> "Pipeline", negated |-> negated, commands |-> commands]

ListItem(cmd, separator) == [command |-> cmd, separator |-> separator]

List(items) == [type |-> "List", items |-> items]

Subshell(cmd) == [type |-> "Subshell", command |-> cmd]

\* else_part: Option<Box<Command>> is <<>> (None) or <<c>> (Some(c));
\* elif_parts: a sequence of pairs <<condition, body>>
IfCommand(condition, then_part, elif_parts, else_part) ==
    [type |-> "If", condition |-> condition, then_part |-> then_part,
     elif_parts |-> elif_parts, else_part |-> else_part]

WhileCommand(condition, body) ==
    [type |-> "While", condition |-> condition, body |-> body]

UntilCommand(condition, body) ==
    [type |-> "Until", condition |-> condition, body |-> body]

ForCommand(variable, words, body) ==
    [type |-> "For", variable |-> variable, words |-> words, body |-> body]

CaseClause(patterns, body) == [patterns |-> patterns, body |-> body]

CaseCommand(word, cases) == [type |-> "Case", word |-> word, cases |-> cases]

FunctionDef(name, body) == [type |-> "FunctionDef", name |-> name, body |-> body]

Group(commands) == [type |-> "Group", commands |-> commands]

\* executor.rs matches a Command::Redirected variant that ast.rs does not declare
Redirected(cmd, redirections) ==
    [type |-> "Redirected", command |-> cmd, redirections |-> redirections]

(***************************************************************************)
(* Result<i32, String>.                                                    *)
(***************************************************************************)
Ok(status) == [ok |-> TRUE, status |-> status, err |-> ""]

Err(msg) == [ok |-> FALSE, status |-> -1, err |-> msg]

(***************************************************************************)
(* Host process launcher: what process.status() can answer.                *)
(***************************************************************************)
Exited(code) == [kind |-> "exited", code |-> code]

\* the process ran but the host reports no exit code (killed by a signal)
Signaled == [kind |-> "signaled", code |-> -1]

\* the launch itself failed (program not found, exec error)
LaunchFailed == [kind |-> "failed", code |-> -1]

Outcomes == {Exited(0), Exited(1), Signaled, LaunchFailed}

(***************************************************************************)
(* Executor: variable expansion and word splitting.                        *)
(***************************************************************************)
\* a map with one binding added or overwritten: HashMap::insert, Command::env
Insert(map, key, value) ==
    [k \in (DOMAIN map) \cup {key} |-> IF k = key THEN value ELSE map[k]]

\* std::env::var(name).unwrap_or_default()
host_env_var(name) == IF name \in DOMAIN HostEnv THEN HostEnv[name] ELSE <<>>

\* get_variable not falling back on the host environment
get_variable_no_host(self, name) ==
    IF name \in DOMAIN self.env_vars THEN self.env_vars[name] ELSE <<>>

\* get_variable looking at the host environment first
get_variable_host_first(self, name) ==
    IF name \in DOMAIN HostEnv
    THEN HostEnv[name]
    ELSE IF name \in DOMAIN self.env_vars THEN self.env_vars[name] ELSE <<>>

get_variable(self, name) ==
    IF name \in DOMAIN self.env_vars
    THEN self.env_vars[name]
    ELSE host_env_var(name)

\* the first index j >= i with input[j] = c, Len(input) + 1 when there is none
RECURSIVE find_char(_, _, _)
find_char(input, i, c) ==
    IF i > Len(input) \/ input[i] = c THEN i ELSE find_char(input, i + 1, c)

\* the first index j >= i whose character is not alphanumeric or '_'
RECURSIVE name_end(_, _)
name_end(input, i) ==
    IF i <= Len(input) /\ (IsAlphanumeric(input[i]) \/ input[i] = "_")
    THEN name_end(input, i + 1)
    ELSE i

RECURSIVE expand_from(_, _, _)
expand_from(self, input, i) ==
    IF i > Len(input) THEN <<>>
    ELSE IF input[i] = "$"
    THEN IF i + 1 <= Len(input) /\ input[i + 1] = "{"
         THEN \* ${VAR}: the name runs to the next '}' (or to the end of the text)
              LET j == find_char(input, i + 2, "}")
              IN  get_variable(self, SubSeq(input, i + 2, j - 1))
                    \o expand_from(self, input, j + 1)
         ELSE \* $VAR: the name is the run of alphanumerics and '_'
              LET j == name_end(input, i + 1)
              IN  get_variable(self, SubSeq(input, i + 1, j - 1))
                    \o expand_from(self, input, j)
    ELSE <<input[i]>> \o expand_from(self, input, i + 1)

expand_variables(self, input) == expand_from(self, input, 1)

\* str::split_whitespace: the maximal runs of non-whitespace, in order
RECURSIVE split_from(_, _, _)
split_from(input, i, cur) ==
    IF i > Len(input)
    THEN IF cur = <<>> THEN <<>> ELSE <<cur>>
    ELSE IF IsWhitespace(input[i])
    THEN (IF cur = <<>> THEN <<>> ELSE <<cur>>) \o split_from(input, i + 1, <<>>)
    ELSE split_from(input, i + 1, Append(cur, input[i]))

word_split(input) == split_from(input, 1, <<>>)

\* lines 42-49 of execute_simple_command: expand and split every word
RECURSIVE expand_words(_, _, _)
expand_words(self, words, i) ==
    IF i > Len(words) THEN <<>>
    ELSE word_split(expand_variables(self, words[i].value))
           \o expand_words(self, words, i + 1)

(***************************************************************************)
(* Executor: the interpreter.  self is the Executor (env_vars,             *)
(* last_exit_status) together with the log of what this execute() call did *)
(* so far.  Every operation yields the set of its possible endings, each   *)
(* the Executor it leaves behind and its Result.                           *)
(***************************************************************************)
Executor(vars_, status) ==
    [env_vars |-> vars_, last_exit_status |-> status, log |-> <<>>]

\* Executor::new
new == [env_vars |-> <<>>, last_exit_status |-> 0]

Returns(self, res) == [self |-> self, res |-> res]

\* log entries: execute() entered / left, a persistent binding written, and a
\* call of the process launcher with the environment handed to it and the
\* outcome the host reported
Entered(cmd) == [ev |-> "enter", command |-> cmd]

Left(cmd, res) == [ev |-> "return", command |-> cmd, res |-> res]

Bound(name, value) == [ev |-> "bind", name |-> name, value |-> value]

Launched(program, args, env, outcome) ==
    [ev |-> "launch", program |-> program, args |-> args, env |-> env,
     outcome |-> outcome]

Logged(self, entry) == [self EXCEPT !.log = Append(@, entry)]

\* lines 35-37: every assignment is inserted into the persistent mapping, in order
RECURSIVE apply_assignments(_, _, _)
apply_assignments(self, assignments, i) ==
    IF i > Len(assignments) THEN self
    ELSE LET a == assignments[i]
             s1 == [self EXCEPT !.env_vars = Insert(@, a.name, a.value)]
         IN  apply_assignments(Logged(s1, Bound(a.name, a.value)), assignments, i + 1)

\* lines 61-64: process.env(name, value) for every assignment, over the
\* inherited host environment
RECURSIVE env_with_assignments(_, _, _)
env_with_assignments(env, assignments, i) ==
    IF i > Len(assignments) THEN env
    ELSE env_with_assignments(Insert(env, assignments[i].name, assignments[i].value),
                              assignments, i + 1)

\* lines 58-69: the environment of the process: the host environment, then the
\* assignments of the command line, then every persistent variable
process_env(self, assignments) ==
    LET base == env_with_assignments(HostEnv, assignments, 1)
    IN  [k \in (DOMAIN base) \cup (DOMAIN self.env_vars) |->
            IF k \in DOMAIN self.env_vars THEN self.env_vars[k] ELSE base[k]]

\* exit_code taking a missing exit code for success
exit_code_default_zero(outcome) == IF outcome.kind = "exited" THEN outcome.code ELSE 0

\* line 73: status.code().unwrap_or(1)
exit_code(outcome) == IF outcome.kind = "exited" THEN outcome.code ELSE 1

\* lines 71-78: the match on what process.status() answered
launched(self, outcome) ==
    IF outcome.kind = "failed"
    THEN Returns(self, Err("Failed to execute"))
    ELSE Returns([self EXCEPT !.last_exit_status = exit_code(outcome)],
                 Ok(exit_code(outcome)))

\* launch writing the assignments of the command line into the persistent
\* mapping as well
launch_persisting(self, cmd, expanded_words) ==
    LET program == expanded_words[1]
        args == Tail(expanded_words)
        env == process_env(self, cmd.assignments)
        s1 == apply_assignments(self, cmd.assignments, 1)
    IN  { launched(Logged(s1, Launched(program, args, env, outcome)), outcome) :
            outcome \in Outcomes }

\* lines 55-78: build the process, run it and wait for it
launch(self, cmd, expanded_words) ==
    LET program == expanded_words[1]
        args == Tail(expanded_words)
        env == process_env(self, cmd.assignments)
    IN  { launched(Logged(self, Launched(program, args, env, outcome)), outcome) :
            outcome \in Outcomes }

\* execute_simple_command recording the status 0 of a command whose words
\* expand to nothing
execute_simple_command_recording(self, cmd) ==
    IF cmd.words = <<>>
    THEN {Returns(apply_assignments(self, cmd.assignments, 1), Ok(0))}
    ELSE LET expanded_words == expand_words(self, cmd.words, 1)
         IN  IF expanded_words = <<>>
             THEN {Returns([self EXCEPT !.last_exit_status = 0], Ok(0))}
             ELSE launch(self, cmd, expanded_words)

execute_simple_command(self, cmd) ==
    IF cmd.words = <<>>
    THEN {Returns(apply_assignments(self, cmd.assignments, 1), Ok(0))}
    ELSE LET expanded_words == expand_words(self, cmd.words, 1)
         IN  IF expanded_words = <<>>
             THEN {Returns(self, Ok(0))}
             ELSE launch(self, cmd, expanded_words)

\* execute_pipeline doing nothing and reporting success
execute_pipeline_silent(self, pipeline) == {Returns(self, Ok(0))}

execute_pipeline(self, pipeline) ==
    {Returns(self, Err("Pipeline execution not yet implemented"))}

execute_redirected(self, redirected) ==
    {Returns(self, Err("Redirected command execution not yet implemented"))}

\* list_breaks with the tests of And and Or exchanged
list_breaks_swapped(separator, last_status) ==
    CASE separator = "And" -> last_status = 0
      [] separator = "Or" -> last_status # 0
      [] separator \in {"Sequential", "Background"} -> FALSE
      [] separator = "Pipe" -> FALSE

\* lines 91-111: does the loop over the items break after this item
list_breaks(separator, last_status) ==
    CASE separator = "And" -> last_status # 0
      [] separator = "Or" -> last_status = 0
      [] separator \in {"Sequential", "Background"} -> FALSE
      [] separator = "Pipe" -> FALSE

RECURSIVE execute(_, _)
RECURSIVE execute_list_from(_, _, _, _)
RECURSIVE execute_elifs(_, _, _)
RECURSIVE execute_while_from(_, _, _)
RECURSIVE execute_until_from(_, _, _)
RECURSIVE execute_for_from(_, _, _)

\* execute_list going on with the next item after an item that failed
execute_list_from_past_errors(self, list, i, last_status) ==
    IF i > Len(list.items) THEN {Returns(self, Ok(last_status))}
    ELSE LET item == list.items[i]
         IN  UNION { IF ~r.res.ok
                     THEN execute_list_from(r.self, list, i + 1, last_status)
                     ELSE IF list_breaks(item.separator, r.res.status)
                     THEN {Returns(r.self, Ok(r.res.status))}
                     ELSE execute_list_from(r.self, list, i + 1, r.res.status) :
                     r \in execute(self, item.command) }

\* the for loop of execute_list from item i on; `?` returns an item's error
execute_list_from(self, list, i, last_status) ==
    IF i > Len(list.items) THEN {Returns(self, Ok(last_status))}
    ELSE LET item == list.items[i]
         IN  UNION { IF ~r.res.ok THEN {r}
                     ELSE IF list_breaks(item.separator, r.res.status)
                     THEN {Returns(r.self, Ok(r.res.status))}
                     ELSE execute_list_from(r.self, list, i + 1, r.res.status) :
                     r \in execute(self, item.command) }

execute_list(self, list) == execute_list_from(self, list, 1, 0)

\* lines 124-136: the elif clauses from clause i on, then the else part
execute_elifs(self, if_cmd, i) ==
    IF i > Len(if_cmd.elif_parts)
    THEN IF if_cmd.else_part # <<>>
         THEN execute(self, if_cmd.else_part[1])
         ELSE {Returns(self, Ok(0))}
    ELSE UNION { IF ~r.res.ok THEN {r}
                 ELSE IF r.res.status = 0
                 THEN execute(r.self, if_cmd.elif_parts[i][2])
                 ELSE execute_elifs(r.self, if_cmd, i + 1) :
                 r \in execute(self, if_cmd.elif_parts[i][1]) }

\* execute_if taking a nonzero status of the condition as true
execute_if_inverted(self, if_cmd) ==
    UNION { IF ~r.res.ok THEN {r}
            ELSE IF r.res.status # 0
            THEN execute(r.self, if_cmd.then_part)
            ELSE execute_elifs(r.self, if_cmd, 1) :
            r \in execute(self, if_cmd.condition) }

execute_if(self, if_cmd) ==
    UNION { IF ~r.res.ok THEN {r}
            ELSE IF r.res.status = 0
            THEN execute(r.self, if_cmd.then_part)
            ELSE execute_elifs(r.self, if_cmd, 1) :
            r \in execute(self, if_cmd.condition) }

\* execute_while returning the last exit status the body left behind
execute_while_last_status(self, while_cmd, n) ==
    UNION { IF ~c.res.ok THEN {c}
            ELSE IF c.res.status # 0
            THEN {Returns(c.self, Ok(IF n = 0 THEN 0 ELSE self.last_exit_status))}
            ELSE IF n >= MaxIter THEN {}
            ELSE UNION { IF ~b.res.ok THEN {b}
                         ELSE execute_while_from(b.self, while_cmd, n + 1) :
                         b \in execute(c.self, while_cmd.body) } :
            c \in execute(self, while_cmd.condition) }

\* the loop of execute_while after n runs of the body; a run that needs more
\* than MaxIter runs of the body is outside the model
execute_while_from(self, while_cmd, n) ==
    UNION { IF ~c.res.ok THEN {c}
            ELSE IF c.res.status # 0 THEN {Returns(c.self, Ok(0))}
            ELSE IF n >= MaxIter THEN {}
            ELSE UNION { IF ~b.res.ok THEN {b}
                         ELSE execute_while_from(b.self, while_cmd, n + 1) :
                         b \in execute(c.self, while_cmd.body) } :
            c \in execute(self, while_cmd.condition) }

execute_while(self, while_cmd) == execute_while_from(self, while_cmd, 0)

\* the loop of execute_until after n runs of the body
execute_until_from(self, until_cmd, n) ==
    UNION { IF ~c.res.ok THEN {c}
            ELSE IF c.res.status = 0 THEN {Returns(c.self, Ok(0))}
            ELSE IF n >= MaxIter THEN {}
            ELSE UNION { IF ~b.res.ok THEN {b}
                         ELSE execute_until_from(b.self, until_cmd, n + 1) :
                         b \in execute(c.self, until_cmd.body) } :
            c \in execute(self, until_cmd.condition) }

execute_until(self, until_cmd) == execute_until_from(self, until_cmd, 0)

\* execute_for going on with the next word after a run of the body that failed
execute_for_ignoring_errors(self, for_cmd, i) ==
    IF i > Len(for_cmd.words) THEN {Returns(self, Ok(0))}
    ELSE LET word == for_cmd.words[i]
             s1 == Logged([self EXCEPT !.env_vars = Insert(@, for_cmd.variable, word)],
                          Bound(for_cmd.variable, word))
         IN  UNION { execute_for_from(b.self, for_cmd, i + 1) :
                     b \in execute(s1, for_cmd.body) }

\* the for loop of execute_for from word i on
execute_for_from(self, for_cmd, i) ==
    IF i > Len(for_cmd.words) THEN {Returns(self, Ok(0))}
    ELSE LET word == for_cmd.words[i]
             s1 == Logged([self EXCEPT !.env_vars = Insert(@, for_cmd.variable, word)],
                          Bound(for_cmd.variable, word))
         IN  UNION { IF ~b.res.ok THEN {b}
                     ELSE execute_for_from(b.self, for_cmd, i + 1) :
                     b \in execute(s1, for_cmd.body) }

execute_for(self, for_cmd) == execute_for_from(self, for_cmd, 1)

\* the match of execute
dispatch(self, cmd) ==
    CASE cmd.type = "Simple" -> execute_simple_command(self, cmd)
      [] cmd.type = "Pipeline" -> execute_pipeline(self, cmd)
      [] cmd.type = "List" -> execute_list(self, cmd)
      [] cmd.type = "If" -> execute_if(self, cmd)
      [] cmd.type = "While" -> execute_while(self, cmd)
      [] cmd.type = "Until" -> execute_until(self, cmd)
      [] cmd.type = "For" -> execute_for(self, cmd)
      [] cmd.type = "Redirected" -> execute_redirected(self, cmd)
      [] OTHER -> {Returns(self, Err("Command type not yet implemented"))}

execute(self, cmd) ==
    { Returns(Logged(r.self, Left(cmd, r.res)), r.res) :
        r \in dispatch(Logged(self, Entered(cmd)), cmd) }

get_last_exit_status(self) == self.last_exit_status

(***************************************************************************)
(* Inputs: the commands handed to execute().                               *)
(***************************************************************************)
Separators == {"Sequential", "Background", "And", "Or", "Pipe"}

ToFile == Redirection("Output", <<>>, [target |-> "File", path |-> <<"f">>])

AssignmentLists ==
    { <<>>,
      <<Assignment(<<"A">>, <<"a">>)>>,
      <<Assignment(<<"A">>, <<"b">>)>>,
      <<Assignment(<<"B">>, <<"a">>)>>,
      <<Assignment(<<"A">>, <<"a">>), Assignment(<<"A">>, <<"b">>)>> }

WordLists ==
    { <<>>,
      <<Word(<<"p">>)>>,
      <<Word(<<"$", "A">>)>>,
      <<Word(<<"$", "{", "A", "}">>)>>,
      <<Word(<<"p">>), Word(<<"$", "B">>)>> }

SimpleCommands ==
    { Simple(a, w, r) : a \in AssignmentLists, w \in WordLists,
                        r \in {<<>>, <<ToFile>>} } \ { Simple(<<>>, <<>>, <<>>) }

\* the simple commands the compound commands are built from
Run(program) == Simple(<<>>, <<Word(program)>>, <<>>)

Assign(name, value) == Simple(<<Assignment(name, value)>>, <<>>, <<>>)

Leaves == {Run(<<"p">>), Assign(<<"A">>, <<"b">>)}

Items == { ListItem(c, sep) : c \in Leaves, sep \in Separators }

Lists ==
    { List(<<a>>) : a \in Items }
      \cup { List(<<a, b>>) : a \in Items, b \in Items }
      \cup { List(<<a, b, c>>) : a \in Items, b \in Items, c \in Items }

ElifLists ==
    { <<>>,
      << <<Run(<<"p", "1">>), Run(<<"b">>)>> >>,
      << <<Run(<<"p", "1">>), Run(<<"b">>)>>,
         <<Assign(<<"A">>, <<"a">>), Assign(<<"B">>, <<"b">>)>> >>,
      << <<Run(<<"p", "1">>), Run(<<"b">>)>>,
         <<Run(<<"p", "2">>), Assign(<<"B">>, <<"b">>)>> >> }

Ifs ==
    { IfCommand(c, Run(<<"a">>), elifs, else) :
        c \in {Run(<<"p">>), Run(<<"$", "A">>)},
        elifs \in ElifLists,
        else \in {<<>>, <<Run(<<"h">>)>>} }

Loops ==
    { WhileCommand(Run(<<"p">>), b) : b \in {Run(<<"b">>), Assign(<<"A">>, <<"a">>)} }
      \cup { UntilCommand(Run(<<"p">>), b) :
               b \in {Run(<<"b">>), Assign(<<"A">>, <<"a">>)} }
      \cup { WhileCommand(Assign(<<"A">>, <<"a">>), Run(<<"b">>)),
             UntilCommand(Run(<<"$", "A">>), Assign(<<"A">>, <<"a">>)) }

Fors ==
    { ForCommand(<<"A">>, w, b) :
        w \in {<<>>, << <<"a">> >>, << <<"a">>, <<"b">> >>},
        b \in {Run(<<"p">>), Run(<<"$", "A">>), Assign(<<"A">>, <<"h">>),
               Assign(<<"B">>, <<"b">>)} }

Unimplemented ==
    { Pipeline(FALSE, <<Run(<<"p">>), Run(<<"b">>)>>),
      Pipeline(TRUE, <<Run(<<"p">>)>>),
      Pipeline(FALSE, <<Assign(<<"A">>, <<"a">>), Run(<<"p">>)>>),
      Subshell(Run(<<"p">>)),
      Subshell(Assign(<<"A">>, <<"a">>)),
      CaseCommand(<<"a">>, <<CaseClause(<< <<"a">> >>, Run(<<"p">>))>>),
      Group(<<Run(<<"p">>)>>),
      Group(<<Assign(<<"A">>, <<"a">>)>>),
      FunctionDef(<<"f">>, Group(<<Run(<<"p">>)>>)),
      Redirected(Run(<<"p">>), <<ToFile>>) }

(***************************************************************************)
(* The shell session: main.rs hands each parsed command to                 *)
(* executor.execute and goes on to the next one whatever the result.       *)
(***************************************************************************)
NoCommand == [type |-> "None"]

\* no call of tokenize() or parse() made yet
NotRun == [type |-> "NotRun"]

\* history: the bindings of a log replayed over the last values bound so far
RECURSIVE Rebound(_, _, _)
Rebound(last, entries, i) ==
    IF i > Len(entries) THEN last
    ELSE IF entries[i].ev = "bind"
    THEN Rebound([n \in (DOMAIN last) \cup {entries[i].name} |->
                     IF n = entries[i].name THEN entries[i].value ELSE last[n]],
                 entries, i + 1)
    ELSE Rebound(last, entries, i + 1)

Init ==
    /\ env_vars = new.env_vars
    /\ last_exit_status = new.last_exit_status
    /\ pc = "idle"
    /\ command = NoCommand
    /\ result = Ok(0)
    /\ log = <<>>
    /\ assigned = <<>>
    /\ text = <<>>
    /\ lexed = NotRun
    /\ parsed = NotRun
    /\ typed = <<>>

\* executor.execute(&command)
Execute(cmd) ==
    /\ pc = "idle"
    /\ \E r \in execute(Executor(env_vars, last_exit_status), cmd) :
           /\ env_vars' = r.self.env_vars
           /\ last_exit_status' = r.self.last_exit_status
           /\ result' = r.res
           /\ log' = r.self.log
           /\ assigned' = Rebound(assigned, r.self.log, 1)
    /\ command' = cmd
    /\ pc' = "executed"
    /\ UNCHANGED <<text, lexed, parsed, typed>>

ExecuteSimple == \E cmd \in SimpleCommands : Execute(cmd)

ExecuteList == \E cmd \in Lists : Execute(cmd)

ExecuteIf == \E cmd \in Ifs : Execute(cmd)

ExecuteLoop == \E cmd \in Loops : Execute(cmd)

ExecuteFor == \E cmd \in Fors : Execute(cmd)

ExecuteUnimplemented == \E cmd \in Unimplemented : Execute(cmd)

\* the match on the result in parse_and_execute: the loop goes on
Continue ==
    /\ pc = "executed"
    /\ pc' = "idle"
    /\ command' = NoCommand
    /\ result' = Ok(0)
    /\ log' = <<>>
    /\ UNCHANGED <<env_vars, last_exit_status, assigned, text, lexed, parsed, typed>>

Next ==
    \/ ExecuteSimple
    \/ ExecuteList
    \/ ExecuteIf
    \/ ExecuteLoop
    \/ ExecuteFor
    \/ ExecuteUnimplemented
    \/ Continue

Spec == Init /\ [][Next]_vars

(***************************************************************************)
(* Reading the log of the last execute() call.                             *)
(***************************************************************************)
\* the "return" entries of the commands the top-level command executed
\* directly (its items, conditions, bodies), in order
RECURSIVE child_runs(_, _, _)
child_runs(entries, i, depth) ==
    IF i > Len(entries) THEN <<>>
    ELSE IF entries[i].ev = "enter" THEN child_runs(entries, i + 1, depth + 1)
    ELSE IF entries[i].ev = "return"
    THEN (IF depth = 2 THEN <<entries[i]>> ELSE <<>>)
           \o child_runs(entries, i + 1, depth - 1)
    ELSE child_runs(entries, i + 1, depth)

ChildRuns == child_runs(log, 1, 0)

\* the names bound by the commands the top-level command executed (not by
\* the top-level command itself)
RECURSIVE bound_below(_, _, _)
bound_below(entries, i, depth) ==
    IF i > Len(entries) THEN {}
    ELSE IF entries[i].ev = "enter" THEN bound_below(entries, i + 1, depth + 1)
    ELSE IF entries[i].ev = "return" THEN bound_below(entries, i + 1, depth - 1)
    ELSE IF entries[i].ev = "bind" /\ depth >= 2
    THEN {entries[i].name} \cup bound_below(entries, i + 1, depth)
    ELSE bound_below(entries, i + 1, depth)

BoundByChildren == bound_below(log, 1, 0)

Launches == { i \in 1..Len(log) : log[i].ev = "launch" }

NotYetImplemented ==
    { "Pipeline execution not yet implemented",
      "Redirected command execution not yet implemented",
      "Command type not yet implemented" }

Executed(type) == pc = "executed" /\ command.type = type

\* the value the last assignment to `name` in a list of assignments gives it
RECURSIVE last_assigned(_, _, _)
last_assigned(assignments, name, i) ==
    IF assignments[i].name = name THEN assignments[i].value
    ELSE last_assigned(assignments, name, i - 1)

AssignedNames(assignments) == { assignments[i].name : i \in 1..Len(assignments) }

(***************************************************************************)
(* C1.  Executing a Simple command that carries a redirection returns a    *)
(* "not yet implemented" error: it never returns a status and never calls  *)
(* the process launcher.                                                   *)
(***************************************************************************)
C1_RedirectionNotImplemented ==
    (Executed("Simple") /\ command.redirections # <<>>)
        => /\ ~result.ok
           /\ result.err \in NotYetImplemented
           /\ Launches = {}

(***************************************************************************)
(* C2.  execute_list runs the items in list order; after an item that      *)
(* returned a status, the next item runs iff the separator is And and the  *)
(* status is 0, or Or and the status is nonzero, or the separator is       *)
(* Sequential or Background.                                               *)
(***************************************************************************)
C2_ListOrder ==
    Executed("List") =>
        LET runs == ChildRuns
            items == command.items
        IN  /\ Len(runs) >= 1
            /\ Len(runs) <= Len(items)
            /\ \A i \in 1..Len(runs) : runs[i].command = items[i].command
            /\ \A i \in 1..Len(runs) :
                 (i < Len(items) /\ runs[i].res.ok /\ items[i].separator # "Pipe")
                    => ((i < Len(runs)) <=>
                          CASE items[i].separator = "And" -> runs[i].res.status = 0
                            [] items[i].separator = "Or" -> runs[i].res.status # 0
                            [] OTHER -> TRUE)

C2_Witness ==
    /\ Executed("List")
    /\ Len(command.items) = 3
    /\ command.items[1].separator = "And"
    /\ command.items[2].separator = "Or"
    /\ command.items[1].command # command.items[2].command
    /\ Len(ChildRuns) = 2
    /\ ChildRuns[2].res = Ok(0)

(***************************************************************************)
(* C3.  execute on a Pipeline, Subshell, Case, Group or FunctionDef        *)
(* returns an error labelled "not yet implemented", calls no launcher and  *)
(* leaves the variable mapping and the last exit status unchanged.         *)
(***************************************************************************)
C3_NotImplementedFails ==
    [][(pc' = "executed"
          /\ command'.type \in {"Pipeline", "Subshell", "Case", "Group", "FunctionDef"})
        => /\ ~result'.ok
           /\ result'.err \in NotYetImplemented
           /\ \A i \in 1..Len(log') : log'[i].ev # "launch"
           /\ env_vars' = env_vars
           /\ last_exit_status' = last_exit_status]_vars

C3_Witness ==
    /\ Executed("Pipeline")
    /\ ~result.ok
    /\ env_vars # <<>>
    /\ last_exit_status # 0

(***************************************************************************)
(* C4.  The environment handed to the launcher maps every NAME assigned on *)
(* the command line to the value assigned there, also when the persistent  *)
(* mapping holds another value for NAME.                                   *)
(***************************************************************************)
C4_AssignmentOverlay ==
    Executed("Simple") =>
        \A i \in Launches : \A n \in AssignedNames(command.assignments) :
            /\ n \in DOMAIN log[i].env
            /\ log[i].env[n] =
                 last_assigned(command.assignments, n, Len(command.assignments))

(***************************************************************************)
(* C5.  A Simple command with at least one word leaves the persistent      *)
(* mapping unchanged whatever its assignments and however the launch ends; *)
(* a Simple command with no words leaves exactly its assignments written.  *)
(***************************************************************************)
C5_WordsKeepVariables ==
    [][(pc' = "executed" /\ command'.type = "Simple")
        => /\ command'.words # <<>> => env_vars' = env_vars
           /\ command'.words = <<>> =>
                LET names == AssignedNames(command'.assignments)
                IN  /\ DOMAIN env_vars' = (DOMAIN env_vars) \cup names
                    /\ \A n \in DOMAIN env_vars' :
                         env_vars'[n] =
                           IF n \in names
                           THEN last_assigned(command'.assignments, n,
                                              Len(command'.assignments))
                           ELSE env_vars[n]]_vars

C5_Witness ==
    /\ Executed("Simple")
    /\ command.words # <<>>
    /\ command.assignments = <<Assignment(<<"A">>, <<"b">>)>>
    /\ Launches # {}
    /\ result.ok
    /\ <<"A">> \in DOMAIN env_vars
    /\ env_vars[<<"A">>] = <<"a">>

(***************************************************************************)
(* C6.  After any sequence of commands, expanding $NAME or ${NAME} gives   *)
(* the value most recently bound to NAME (by a pure-assignment command or  *)
(* a for loop); a pure-assignment command returns status 0.                *)
(***************************************************************************)
C6_ExpansionSeesLastAssignment ==
    LET self == [env_vars |-> env_vars, last_exit_status |-> last_exit_status]
    IN  /\ \A n \in DOMAIN assigned :
             /\ expand_variables(self, <<"$">> \o n) = assigned[n]
             /\ expand_variables(self, <<"$", "{">> \o n \o <<"}">>) = assigned[n]
        /\ (Executed("Simple") /\ command.words = <<>>) => result = Ok(0)

C6_Witness ==
    /\ Executed("Simple")
    /\ command.words = <<>>
    /\ command.assignments = <<Assignment(<<"B">>, <<"a">>)>>
    /\ <<"A">> \in DOMAIN assigned
    /\ assigned[<<"A">>] = <<"b">>
    /\ expand_variables([env_vars |-> env_vars], <<"$", "B">>) = <<"a">>

(***************************************************************************)
(* C7 as stated.  For every ForCommand the body executes words.len()       *)
(* times, and after the loop the mapping holds the last element of words   *)
(* for the loop variable.                                                  *)
(***************************************************************************)
C7_ForRunsBodyPerWord ==
    Executed("For") =>
        /\ Len(ChildRuns) = Len(command.words)
        /\ command.words # <<>> =>
             /\ command.variable \in DOMAIN env_vars
             /\ env_vars[command.variable] = command.words[Len(command.words)]

(***************************************************************************)
(* C7 amended.  The body executes once per word, in order, until a run of  *)
(* the body returns an error, which ends the loop with that error; a loop  *)
(* no run of which fails returns status 0 after words.len() runs, and the  *)
(* mapping then holds the last element of words for the loop variable      *)
(* unless the body itself binds that variable; with no words the mapping   *)
(* is untouched.                                                           *)
(***************************************************************************)
C7_ForRunsBodyUntilError ==
    [][(pc' = "executed" /\ command'.type = "For")
        => LET runs == child_runs(log', 1, 0)
               words == command'.words
           IN  /\ Len(runs) <= Len(words)
               /\ \A i \in 1..Len(runs) :
                    /\ runs[i].command = command'.body
                    /\ i < Len(runs) => runs[i].res.ok
               /\ IF \E i \in 1..Len(runs) : ~runs[i].res.ok
                  THEN result' = runs[Len(runs)].res
                  ELSE /\ result' = Ok(0)
                       /\ Len(runs) = Len(words)
                       /\ (words # <<>>
                             /\ command'.variable \notin bound_below(log', 1, 0))
                            => /\ command'.variable \in DOMAIN env_vars'
                               /\ env_vars'[command'.variable] = words[Len(words)]
               /\ words = <<>> => env_vars' = env_vars]_vars

C7_Witness ==
    /\ Executed("For")
    /\ Len(command.words) = 2
    /\ Len(ChildRuns) = 2
    /\ Launches # {}
    /\ result = Ok(0)
    /\ env_vars[command.variable] = <<"b">>

(***************************************************************************)
(* C8.  execute_if evaluates the condition once; status 0 selects          *)
(* then_part; otherwise the elif conditions are evaluated in order and the *)
(* body of the first with status 0 runs, no later condition being          *)
(* evaluated; if none is 0 the else_part runs when present, otherwise the  *)
(* result is status 0.  At most one body runs and the result is its        *)
(* result.                                                                 *)
(***************************************************************************)
C8_IfSelectsFirstTrueBranch ==
    Executed("If") =>
        LET runs == ChildRuns
            elifs == command.elif_parts
            conds == <<command.condition>> \o [i \in 1..Len(elifs) |-> elifs[i][1]]
            bodies == <<command.then_part>> \o [i \in 1..Len(elifs) |-> elifs[i][2]]
        IN  \E j \in 1..Len(conds) :
              /\ Len(runs) >= j
              /\ \A i \in 1..j : runs[i].command = conds[i]
              /\ \A i \in 1..(j - 1) : runs[i].res.ok /\ runs[i].res.status # 0
              /\ IF ~runs[j].res.ok
                 THEN Len(runs) = j /\ result = runs[j].res
                 ELSE IF runs[j].res.status = 0
                 THEN /\ Len(runs) = j + 1
                      /\ runs[j + 1].command = bodies[j]
                      /\ result = runs[j + 1].res
                 ELSE /\ j = Len(conds)
                      /\ IF command.else_part # <<>>
                         THEN /\ Len(runs) = j + 1
                              /\ runs[j + 1].command = command.else_part[1]
                              /\ result = runs[j + 1].res
                         ELSE Len(runs) = j /\ result = Ok(0)

C8_Witness ==
    /\ Executed("If")
    /\ Len(command.elif_parts) = 2
    /\ command.else_part # <<>>
    /\ Len(ChildRuns) = 3
    /\ ChildRuns[1].res = Ok(1)
    /\ ChildRuns[2].res = Ok(0)
    /\ ChildRuns[3].command = command.elif_parts[1][2]
    /\ result = Ok(1)

(***************************************************************************)
(* C9.  execute_while alternates condition and body: the body runs once    *)
(* after each condition that returned 0, and the loop stops at the first   *)
(* condition that returns nonzero, with status 0 whatever the statuses of  *)
(* the body were.  execute_until is the same with the test inverted.       *)
(***************************************************************************)
C9_LoopAlternates ==
    (Executed("While") \/ Executed("Until")) =>
        LET runs == ChildRuns
            goes_on(status) == IF command.type = "While" THEN status = 0
                               ELSE status # 0
        IN  /\ Len(runs) >= 1
            /\ \A i \in 1..Len(runs) :
                 /\ runs[i].command =
                      IF i % 2 = 1 THEN command.condition ELSE command.body
                 /\ i < Len(runs) => runs[i].res.ok
                 /\ (i < Len(runs) /\ i % 2 = 1) => goes_on(runs[i].res.status)
            /\ IF runs[Len(runs)].res.ok
               THEN /\ Len(runs) % 2 = 1
                    /\ ~goes_on(runs[Len(runs)].res.status)
                    /\ result = Ok(0)
               ELSE result = runs[Len(runs)].res

C9_Witness ==
    /\ Executed("While")
    /\ Len(ChildRuns) = 5
    /\ ChildRuns[4].res = Ok(1)
    /\ ChildRuns[5].res = Ok(1)
    /\ result = Ok(0)

(***************************************************************************)
(* C10.  When execute_list meets an item whose separator is Pipe it        *)
(* returns an error instead of going on with the following items.          *)
(***************************************************************************)
C10_PipeSeparatorFails ==
    Executed("List") =>
        \A i \in 1..Len(ChildRuns) :
            (command.items[i].separator = "Pipe" /\ ChildRuns[i].res.ok)
               => ~result.ok /\ Len(ChildRuns) = i

(***************************************************************************)
(* C12.  Variable lookup during expansion gives the value of the           *)
(* persistent mapping when the name is there, otherwise the value of the   *)
(* host environment, otherwise the empty string; a name in both resolves   *)
(* to the persistent value.  Observed on what `$A`, `${A}` and `p $B`      *)
(* hand to the launcher.                                                   *)
(***************************************************************************)
C12_LookupOrder ==
    [][(pc' = "executed" /\ command'.type = "Simple" /\ command'.words # <<>>)
        => LET Lookup(n) == IF n \in DOMAIN env_vars THEN env_vars[n]
                            ELSE IF n \in DOMAIN HostEnv THEN HostEnv[n]
                            ELSE <<>>
               launches == { i \in 1..Len(log') : log'[i].ev = "launch" }
               words == command'.words
           IN  /\ words \in { <<Word(<<"$", "A">>)>>, <<Word(<<"$", "{", "A", "}">>)>> }
                    => IF Lookup(<<"A">>) = <<>>
                       THEN launches = {} /\ result' = Ok(0)
                       ELSE \E i \in launches :
                              /\ launches = {i}
                              /\ log'[i].program = Lookup(<<"A">>)
                              /\ log'[i].args = <<>>
               /\ words = <<Word(<<"p">>), Word(<<"$", "B">>)>>
                    => \E i \in launches :
                         /\ launches = {i}
                         /\ log'[i].program = <<"p">>
                         /\ log'[i].args = IF Lookup(<<"B">>) = <<>> THEN <<>>
                                           ELSE <<Lookup(<<"B">>)>>]_vars

C12_Witness ==
    /\ Executed("Simple")
    /\ command.words = <<Word(<<"p">>), Word(<<"$", "B">>)>>
    /\ command.assignments = <<>>
    /\ <<"B">> \in DOMAIN env_vars
    /\ env_vars[<<"B">>] # HostEnv[<<"B">>]
    /\ \E i \in Launches : log[i].args = <<env_vars[<<"B">>]>>

(***************************************************************************)
(* C13.  After a launch for which the host reports exit code c, execute    *)
(* returns c and the last exit status is c; when the host reports no exit  *)
(* code both are 1.  So the last exit status is 0 before any launch and    *)
(* afterwards the status of the program launched last.                     *)
(***************************************************************************)
C13_LastExitStatus ==
    /\ last_exit_status = 0
    /\ [][pc' = "executed"
            => LET ran == { i \in 1..Len(log') :
                              log'[i].ev = "launch" /\ log'[i].outcome.kind # "failed" }
                   status(i) == IF log'[i].outcome.kind = "exited"
                                THEN log'[i].outcome.code ELSE 1
               IN  /\ last_exit_status' =
                        IF ran = {} THEN last_exit_status
                        ELSE status(CHOOSE i \in ran : \A j \in ran : j <= i)
                   /\ get_last_exit_status([last_exit_status |-> last_exit_status'])
                        = last_exit_status'
                   /\ (command'.type = "Simple" /\ ran # {})
                        => \A i \in ran : result' = Ok(status(i))]_vars

C13_Witness ==
    /\ Executed("Simple")
    /\ \E i \in Launches : log[i].outcome = Signaled
    /\ result = Ok(1)
    /\ last_exit_status = 1

(***************************************************************************)
(* The lexer (src/src/lexer.rs).  A Lexer is its input and its cursor;     *)
(* every scanning function returns the lexer it leaves behind.             *)
(***************************************************************************)
\* what current_char() gives at the end of the input: '\0'
NUL == "NUL"

\* char::is_alphabetic over the characters the model uses
is_alphabetic(c) ==
    c \in {"A", "B", "a", "b", "c", "d", "e", "f", "h", "i", "l", "n", "o",
           "p", "r", "s", "t", "u", "w"}

\* char::is_ascii_digit over the characters the model uses
is_ascii_digit(c) == c \in {"1", "2", "9"}

\* char::is_alphanumeric
is_alphanumeric(c) == is_alphabetic(c) \/ is_ascii_digit(c)

\* char::is_whitespace over the characters the model uses
is_whitespace(c) == c \in {" ", "\t", "\r", "\n"}

Position(line, column) == [line |-> line, column |-> column]

Token(kind, value, position) == [kind |-> kind, value |-> value, position |-> position]

\* Lexer::new
lexer_new(chars) == [input |-> chars, position |-> 0, line |-> 1, column |-> 1]

is_eof(self) == self.position >= Len(self.input)

current_char(self) == IF is_eof(self) THEN NUL ELSE self.input[self.position + 1]

advance(self) ==
    IF is_eof(self) THEN self
    ELSE IF self.input[self.position + 1] = "\n"
         THEN [self EXCEPT !.line = @ + 1, !.column = 1, !.position = @ + 1]
         ELSE [self EXCEPT !.column = @ + 1, !.position = @ + 1]

is_word_start(ch) == is_alphabetic(ch) \/ ch \in {"_", "-", ".", "/"}

is_word_char(ch) == is_alphanumeric(ch) \/ ch \in {"_", "-", ".", "/", "$"}

is_standalone_dash(self) ==
    IF self.position + 1 >= Len(self.input) THEN TRUE
    ELSE LET next == self.input[self.position + 2]
         IN  is_whitespace(next) \/ next \in {">", "<", "|", "&", ";"}

\* skip_whitespace skipping newlines too
RECURSIVE skip_whitespace_and_newlines(_)
skip_whitespace_and_newlines(self) ==
    IF is_eof(self) THEN self
    ELSE IF is_whitespace(current_char(self))
         THEN skip_whitespace_and_newlines(advance(self))
    ELSE self

RECURSIVE skip_whitespace(_)
skip_whitespace(self) ==
    IF is_eof(self) THEN self
    ELSE IF current_char(self) \in {" ", "\t", "\r"} THEN skip_whitespace(advance(self))
    ELSE self

\* a token read, or a lexical error; both with the lexer left behind
Lexed(self, token) == [ok |-> TRUE, token |-> token, self |-> self]

LexError(self, err) == [ok |-> FALSE, err |-> err, self |-> self]

\* the text being collected and the lexer, inside a scanning loop
Scan(self, word) == [self |-> self, word |-> word]

\* while !is_eof() && is_word_char(current_char()) { push; advance }
RECURSIVE read_word_chars(_, _)
read_word_chars(self, word) ==
    IF ~is_eof(self) /\ is_word_char(current_char(self))
    THEN read_word_chars(advance(self), Append(word, current_char(self)))
    ELSE Scan(self, word)

\* while !is_eof() && current_char().is_ascii_digit() { push; advance }
RECURSIVE read_digits(_, _)
read_digits(self, word) ==
    IF ~is_eof(self) /\ is_ascii_digit(current_char(self))
    THEN read_digits(advance(self), Append(word, current_char(self)))
    ELSE Scan(self, word)

\* while !is_eof() && (current_char().is_alphanumeric() || current_char() == '_')
RECURSIVE read_name_chars(_, _)
read_name_chars(self, word) ==
    IF ~is_eof(self) /\ (is_alphanumeric(current_char(self)) \/ current_char(self) = "_")
    THEN read_name_chars(advance(self), Append(word, current_char(self)))
    ELSE Scan(self, word)

\* while !is_eof() && current_char() != '}' { push; advance }
RECURSIVE read_braced(_, _)
read_braced(self, word) ==
    IF ~is_eof(self) /\ current_char(self) # "}"
    THEN read_braced(advance(self), Append(word, current_char(self)))
    ELSE Scan(self, word)

\* the loop over the inside of a quoted text, up to the closing quote or
\* the end of the input; a backslash escapes inside double quotes
RECURSIVE read_quoted(_, _, _)
read_quoted(self, word, quote) ==
    IF ~is_eof(self) /\ current_char(self) # quote
    THEN IF current_char(self) = "\\" /\ quote = "\""
         THEN LET escaped == advance(self)
              IN  IF ~is_eof(escaped)
                  THEN read_quoted(advance(escaped), Append(word, current_char(escaped)), quote)
                  ELSE read_quoted(escaped, word, quote)
         ELSE read_quoted(advance(self), Append(word, current_char(self)), quote)
    ELSE Scan(self, word)

\* while !is_eof() && current_char() != '\n' { advance }
RECURSIVE skip_comment(_)
skip_comment(self) ==
    IF ~is_eof(self) /\ current_char(self) # "\n" THEN skip_comment(advance(self))
    ELSE self

read_variable_or_word(self, pos) ==
    LET dollar == advance(self)
        word == <<current_char(self)>>
    IN  IF ~is_eof(dollar) /\ current_char(dollar) = "{"
        THEN LET inside == read_braced(advance(dollar), Append(word, "{"))
             IN  IF is_eof(inside.self)
                 THEN LexError(inside.self, [msg |-> "Unclosed variable expansion"])
                 ELSE Lexed(advance(inside.self),
                            Token("Word", Append(inside.word, current_char(inside.self)), pos))
        ELSE LET name == read_name_chars(dollar, word)
             IN  Lexed(name.self, Token("Word", name.word, pos))

\* the keyword table of read_word
keyword(word) ==
    CASE word = <<"i", "f">> -> "If"
      [] word = <<"t", "h", "e", "n">> -> "Then"
      [] word = <<"e", "l", "s", "e">> -> "Else"
      [] word = <<"e", "l", "i", "f">> -> "Elif"
      [] word = <<"f", "i">> -> "Fi"
      [] word = <<"c", "a", "s", "e">> -> "Case"
      [] word = <<"e", "s", "a", "c">> -> "Esac"
      [] word = <<"f", "o", "r">> -> "For"
      [] word = <<"s", "e", "l", "e", "c", "t">> -> "Select"
      [] word = <<"w", "h", "i", "l", "e">> -> "While"
      [] word = <<"u", "n", "t", "i", "l">> -> "Until"
      [] word = <<"d", "o">> -> "Do"
      [] word = <<"d", "o", "n", "e">> -> "Done"
      [] word = <<"i", "n">> -> "In"
      [] word = <<"f", "u", "n", "c", "t", "i", "o", "n">> -> "Function"
      [] word = <<"t", "i", "m", "e">> -> "Time"
      [] OTHER -> "Word"

read_word(self, pos) ==
    LET name == read_word_chars(self, <<>>)
    IN  IF ~is_eof(name.self) /\ current_char(name.self) = "="
        THEN LET eq == advance(name.self)
                 word == Append(name.word, "=")
             IN  IF ~is_eof(eq)
                 THEN IF current_char(eq) \in {"\"", "'"}
                      THEN LET value == read_quoted(advance(eq), word, current_char(eq))
                           IN  Lexed(advance(value.self),
                                     Token("AssignmentWord", value.word, pos))
                      ELSE LET value == read_word_chars(eq, word)
                           IN  Lexed(value.self, Token("AssignmentWord", value.word, pos))
                 ELSE Lexed(eq, Token("AssignmentWord", word, pos))
        ELSE Lexed(name.self, Token(keyword(name.word), name.word, pos))

read_number_or_word(self, pos) ==
    LET digits == read_digits(self, <<>>)
        next_ch == current_char(digits.self)
    IN  IF next_ch = ">" \/ next_ch = "<"
        THEN Lexed(digits.self, Token("Number", digits.word, pos))
        ELSE LET rest == read_word_chars(digits.self, digits.word)
             IN  IF ~is_eof(rest.self) /\ current_char(rest.self) = "="
                 THEN LET value == read_word_chars(advance(rest.self), Append(rest.word, "="))
                      IN  Lexed(value.self, Token("AssignmentWord", value.word, pos))
                 ELSE Lexed(rest.self, Token("Word", rest.word, pos))

read_quoted_string(self, quote) ==
    LET pos == Position(self.line, self.column)
        value == read_quoted(advance(self), <<>>, quote)
    IN  IF is_eof(value.self)
        THEN LexError(value.self, [msg |-> "Unterminated string",
                                   line |-> pos.line, column |-> pos.column])
        ELSE Lexed(advance(value.self), Token("Word", value.word, pos))

\* the arms of next_token with one or two fixed characters
operator(self, pos, ch) ==
    LET one == advance(self)
        two == advance(one)
        three == advance(two)
        next == current_char(one)
        Tok(after, kind, value) == Lexed(after, Token(kind, value, pos))
    IN  CASE ch = "\n" -> Tok(one, "Newline", <<"\n">>)
          [] ch = ";" -> IF next = ";" THEN Tok(two, "DoubleSemicolon", <<";", ";">>)
                         ELSE Tok(one, "Semicolon", <<";">>)
          [] ch = "|" -> IF next = "|" THEN Tok(two, "Or", <<"|", "|">>)
                         ELSE Tok(one, "Pipe", <<"|">>)
          [] ch = "&" -> IF next = "&" THEN Tok(two, "And", <<"&", "&">>)
                         ELSE IF next = ">" THEN Tok(two, "AndGreat", <<"&", ">">>)
                         ELSE Tok(one, "Ampersand", <<"&">>)
          [] ch = ">" -> IF next = ">" THEN Tok(two, "GreatGreat", <<">", ">">>)
                         ELSE IF next = "&" THEN Tok(two, "GreatAnd", <<">", "&">>)
                         ELSE IF next = "|" THEN Tok(two, "GreatPipe", <<">", "|">>)
                         ELSE Tok(one, "Greater", <<">">>)
          [] ch = "<" -> IF next = "<"
                         THEN IF current_char(two) = "-"
                              THEN Tok(three, "LessLessDash", <<"<", "<", "-">>)
                              ELSE Tok(two, "LessLess", <<"<", "<">>)
                         ELSE IF next = "&" THEN Tok(two, "LessAnd", <<"<", "&">>)
                         ELSE IF next = ">" THEN Tok(two, "LessGreat", <<"<", ">">>)
                         ELSE Tok(one, "Less", <<"<">>)
          [] ch = "!" -> Tok(one, "Not", <<"!">>)
          [] ch = "(" -> Tok(one, "LeftParen", <<"(">>)
          [] ch = ")" -> Tok(one, "RightParen", <<")">>)
          [] ch = "{" -> Tok(one, "LeftBrace", <<"{">>)
          [] ch = "}" -> Tok(one, "RightBrace", <<"}">>)

RECURSIVE next_token(_)
next_token(self) ==
    LET pos == Position(self.line, self.column)
        ch == current_char(self)
    IN  CASE ch \in {"\n", ";", "|", "&", ">", "<", "!", "(", ")", "{", "}"} ->
               operator(self, pos, ch)
          [] ch = "-" /\ is_standalone_dash(self) ->
               Lexed(advance(self), Token("Dash", <<"-">>, pos))
          [] ch = "#" -> next_token(skip_comment(self))
          [] ch = "\"" -> read_quoted_string(self, "\"")
          [] ch = "'" -> read_quoted_string(self, "'")
          [] ch = "$" -> read_variable_or_word(self, pos)
          [] OTHER ->
               IF is_ascii_digit(ch) THEN read_number_or_word(self, pos)
               ELSE IF is_word_start(ch) THEN read_word(self, pos)
               ELSE LexError(self, [msg |-> "Unexpected character", ch |-> ch,
                                    line |-> self.line, column |-> self.column])

\* what tokenize() returns: the tokens, or a lexical error
Tokens(tokens) == [ok |-> TRUE, tokens |-> tokens]

LexicalError(err) == [ok |-> FALSE, err |-> err]

\* finish returning the tokens without the end-of-input token
finish_without_eof(self, tokens) == Tokens(tokens)

\* tokens.push(Token::new(TokenKind::Eof, ..)); Ok(tokens)
finish(self, tokens) ==
    Tokens(Append(tokens, Token("Eof", <<>>, Position(self.line, self.column))))

RECURSIVE tokenize_from(_, _)
tokenize_from(self, tokens) ==
    IF is_eof(self) THEN finish(self, tokens)
    ELSE IF is_eof(skip_whitespace(self)) THEN finish(skip_whitespace(self), tokens)
    ELSE CHOOSE out \in { IF r.ok THEN tokenize_from(r.self, Append(tokens, r.token))
                          ELSE LexicalError(r.err) :
                          r \in {next_token(skip_whitespace(self))} } : TRUE

tokenize(self) == tokenize_from(self, <<>>)

(***************************************************************************)
(* The parser (src/src/parser.rs).  A Parser is its tokens and its cursor; *)
(* every parsing function returns the parser it leaves behind, with the    *)
(* value it parsed or with the error it reports.  A `?` in the code is an  *)
(* early return of the error.                                              *)
(***************************************************************************)
\* Parser::new
parser_new(toks) == [tokens |-> toks, position |-> 0]

current(self) == self.tokens[self.position + 1]

is_at_end(self) ==
    IF self.position >= Len(self.tokens) THEN TRUE ELSE current(self).kind = "Eof"

check(self, kind) == ~is_at_end(self) /\ current(self).kind = kind

\* the parser after advance(); the token it returns is current() before the call
parser_advance(self) ==
    IF ~is_at_end(self) THEN [self EXCEPT !.position = @ + 1] ELSE self

RECURSIVE skip_newlines(_)
skip_newlines(self) ==
    IF check(self, "Newline") THEN skip_newlines(parser_advance(self)) ELSE self

\* Ok(value), Err(String), and the abort of the process by a failed unwrap()
Parsed(self, value) == [ok |-> TRUE, value |-> value, self |-> self]

ParseError(self, err) == [ok |-> FALSE, panic |-> FALSE, err |-> err, self |-> self]

Panic(self) == [ok |-> FALSE, panic |-> TRUE, err |-> [msg |-> "panic"], self |-> self]

expect(self, kind) ==
    IF check(self, kind) THEN Parsed(parser_advance(self), current(self))
    ELSE ParseError(self, [msg |-> "Expected", expected |-> kind,
                           got |-> current(self).kind,
                           line |-> current(self).position.line,
                           column |-> current(self).position.column])

\* i32::MAX
I32Max == 2147483647

digit_value(c) == CASE c = "1" -> 1 [] c = "2" -> 2 [] c = "9" -> 9

\* str::parse::<i32> of a run of digits: the number, or an error when it is
\* too large for 32 bits (the multiplication and the addition are checked)
RECURSIVE decimal(_, _)
decimal(digits, acc) ==
    IF digits = <<>> THEN [ok |-> TRUE, value |-> acc]
    ELSE IF acc > (I32Max - digit_value(digits[1])) \div 10
    THEN [ok |-> FALSE, value |-> 0]
    ELSE decimal(Tail(digits), acc * 10 + digit_value(digits[1]))

parse_i32(digits) == decimal(digits, 0)

\* str::split_once('=')
RECURSIVE split_at_equals(_, _)
split_at_equals(name, rest) ==
    IF rest = <<>> THEN <<>>
    ELSE IF rest[1] = "=" THEN <<Assignment(name, Tail(rest))>>
    ELSE split_at_equals(Append(name, rest[1]), Tail(rest))

split_once(value) == split_at_equals(<<>>, value)

is_redirection(self) ==
    IF check(self, "Number")
    THEN IF self.position + 1 < Len(self.tokens)
         THEN self.tokens[self.position + 2].kind \in
                  {"Greater", "Less", "GreatGreat", "LessLess", "LessAnd",
                   "GreatAnd", "LessGreat"}
         ELSE FALSE
    ELSE current(self).kind \in
             {"Greater", "Less", "GreatGreat", "LessLess", "LessAnd", "GreatAnd",
              "LessGreat", "GreatPipe", "AndGreat", "LessLessDash"}

is_word_or_keyword(self) == current(self).kind \in {"Word", "Done", "Time", "In"}

\* the match on the operator token in parse_redirection
redirection_kind(kind) ==
    CASE kind = "Greater" -> "Output"
      [] kind = "Less" -> "Input"
      [] kind = "GreatGreat" -> "Append"
      [] kind = "LessLess" -> "Heredoc"
      [] kind = "LessLessDash" -> "HeredocStrip"
      [] kind = "LessAnd" -> "InputDup"
      [] kind = "GreatAnd" -> "OutputDup"
      [] kind = "LessGreat" -> "InputOutput"
      [] kind = "GreatPipe" -> "Clobber"
      [] kind = "AndGreat" -> "OutputBoth"
      [] OTHER -> "none"

\* RedirectionTarget
Close == [target |-> "Close"]

Fd(n) == [target |-> "Fd", fd |-> n]

File(path) == [target |-> "File", path |-> path]

\* the target of a redirection, after its operator
redirection_target(self, kind, fd) ==
    IF check(self, "Dash")
    THEN Parsed(parser_advance(self), Redirection(kind, fd, Close))
    ELSE IF check(self, "Number")
    THEN LET n == parse_i32(current(self).value)
         IN  IF n.ok THEN Parsed(parser_advance(self), Redirection(kind, fd, Fd(n.value)))
             ELSE Panic(parser_advance(self))
    ELSE IF check(self, "Word")
    THEN Parsed(parser_advance(self), Redirection(kind, fd, File(current(self).value)))
    ELSE ParseError(self, [msg |-> "Expected redirection target"])

\* the operator of a redirection and what follows, after the optional number
redirection_operator(self, fd) ==
    LET kind == redirection_kind(current(self).kind)
    IN  IF kind = "none"
        THEN ParseError(self, [msg |-> "Expected redirection operator",
                               got |-> current(self)])
        ELSE redirection_target(parser_advance(self), kind, fd)

parse_redirection(self) ==
    IF check(self, "Number")
    THEN LET n == parse_i32(current(self).value)
         IN  IF n.ok THEN redirection_operator(parser_advance(self), <<n.value>>)
             ELSE Panic(parser_advance(self))
    ELSE redirection_operator(self, <<>>)

\* the `?` operator of the code: an Err is returned at once, an Ok value
\* goes on to the rest of the function
Try(r, Rest(_)) ==
    CHOOSE out \in { IF v.ok THEN Rest(v) ELSE v : v \in {r} } : TRUE

\* the loop of parse_simple_command
RECURSIVE simple_from(_, _)
simple_from(self, cmd) ==
    IF check(self, "AssignmentWord")
    THEN simple_from(parser_advance(self),
                     [cmd EXCEPT !.assignments = @ \o split_once(current(self).value)])
    ELSE IF is_redirection(self)
    THEN Try(parse_redirection(self), LAMBDA r :
             simple_from(r.self, [cmd EXCEPT !.redirections = Append(@, r.value)]))
    ELSE IF is_word_or_keyword(self)
    THEN simple_from(parser_advance(self),
                     [cmd EXCEPT !.words = Append(@, Word(current(self).value))])
    ELSE Parsed(self, cmd)

parse_simple_command(self) ==
    Try(simple_from(self, Simple(<<>>, <<>>, <<>>)), LAMBDA r :
        IF r.self.position = self.position
           /\ r.value.assignments = <<>> /\ r.value.words = <<>>
           /\ r.value.redirections = <<>>
        THEN ParseError(r.self, [msg |-> "Expected command"])
        ELSE r)

\* separator_at taking `||` for the separator of a pipeline
separator_at_piping(self) ==
    IF check(self, "And") THEN "And"
    ELSE IF check(self, "Or") THEN "Pipe"
    ELSE IF check(self, "Ampersand") THEN "Background"
    ELSE IF check(self, "Semicolon") THEN "Sequential"
    ELSE IF check(self, "Newline") THEN "Sequential"
    ELSE "none"

\* the separator at the cursor in parse_list1 and parse_compound_list, or "none"
separator_at(self) ==
    IF check(self, "And") THEN "And"
    ELSE IF check(self, "Or") THEN "Or"
    ELSE IF check(self, "Ampersand") THEN "Background"
    ELSE IF check(self, "Semicolon") THEN "Sequential"
    ELSE IF check(self, "Newline") THEN "Sequential"
    ELSE "none"

\* left = Command::List(List { items: vec![{left, separator}, {right, Sequential}] })
Joined(left, separator, right) ==
    List(<<ListItem(left, separator), ListItem(right, "Sequential")>>)

RECURSIVE parse_list(_)
RECURSIVE parse_list1_from(_, _)
RECURSIVE parse_list1(_)
RECURSIVE parse_pipeline_command(_)
RECURSIVE parse_pipeline_from(_, _)
RECURSIVE parse_command(_)
RECURSIVE parse_if_command(_)
RECURSIVE parse_elifs(_, _, _, _)
RECURSIVE parse_compound_list_from(_, _, _)
RECURSIVE parse_compound_list(_, _)
RECURSIVE parse_while_command(_)
RECURSIVE parse_until_command(_)
RECURSIVE parse_for_command(_)
RECURSIVE parse_case_command(_)
RECURSIVE parse_clauses(_, _, _)
RECURSIVE parse_subshell(_)
RECURSIVE parse_group_command(_)
RECURSIVE parse_group_from(_, _)
RECURSIVE parse_function_def(_)

\* parse_list1 grouping to the right: what follows a separator is one list
parse_list1_from_right(self, left) ==
    IF separator_at(self) = "none" THEN Parsed(self, left)
    ELSE Try(parse_list1(skip_newlines(parser_advance(self))), LAMBDA right :
             Parsed(right.self, Joined(left, separator_at(self), right.value)))

\* the loop of parse_list1
parse_list1_from(self, left) ==
    IF separator_at(self) = "none" THEN Parsed(self, left)
    ELSE Try(parse_pipeline_command(skip_newlines(parser_advance(self))), LAMBDA right :
             parse_list1_from(right.self, Joined(left, separator_at(self), right.value)))

parse_list1(self) ==
    Try(parse_pipeline_command(self), LAMBDA left :
        parse_list1_from(left.self, left.value))

parse_list0(self) ==
    Try(parse_list1(self), LAMBDA first :
        IF \/ check(first.self, "Newline")
           \/ check(first.self, "Ampersand")
           \/ check(first.self, "Semicolon")
        THEN Parsed(skip_newlines(parser_advance(first.self)), first.value)
        ELSE first)

parse_list(self) == parse_list0(skip_newlines(self))

\* parse_pipeline_command reading over a leading `!`
parse_pipeline_command_plain(self) ==
    IF check(self, "Not")
    THEN parse_pipeline_from(parser_advance(self), <<>>)
    ELSE parse_pipeline_from(self, <<>>)

parse_pipeline_command(self) ==
    IF check(self, "Not")
    THEN Try(parse_pipeline_from(parser_advance(self), <<>>), LAMBDA pipeline :
             IF pipeline.value.type = "Pipeline"
             THEN Parsed(pipeline.self, [pipeline.value EXCEPT !.negated = TRUE])
             ELSE Parsed(pipeline.self, Pipeline(TRUE, <<pipeline.value>>)))
    ELSE parse_pipeline_from(self, <<>>)

\* parse_pipeline, from the command after the commands read so far
parse_pipeline_from(self, commands) ==
    Try(parse_command(self), LAMBDA cmd :
        IF check(cmd.self, "Pipe")
        THEN parse_pipeline_from(skip_newlines(parser_advance(cmd.self)),
                                 Append(commands, cmd.value))
        ELSE IF commands = <<>> THEN cmd
        ELSE Parsed(cmd.self, Pipeline(FALSE, Append(commands, cmd.value))))

parse_pipeline(self) == parse_pipeline_from(self, <<>>)

parse_command(self) ==
    IF check(self, "If") THEN parse_if_command(self)
    ELSE IF check(self, "While") THEN parse_while_command(self)
    ELSE IF check(self, "Until") THEN parse_until_command(self)
    ELSE IF check(self, "For") THEN parse_for_command(self)
    ELSE IF check(self, "Case") THEN parse_case_command(self)
    ELSE IF check(self, "LeftParen") THEN parse_subshell(self)
    ELSE IF check(self, "LeftBrace") THEN parse_group_command(self)
    ELSE IF check(self, "Function") THEN parse_function_def(self)
    ELSE parse_simple_command(self)

at_terminator(self, terminators) == \E t \in terminators : check(self, t)

\* the loop of parse_compound_list
parse_compound_list_from(self, left, terminators) ==
    IF at_terminator(self, terminators) THEN Parsed(self, left)
    ELSE IF separator_at(self) = "none" THEN Parsed(self, left)
    ELSE LET after == skip_newlines(parser_advance(self))
         IN  IF at_terminator(after, terminators) THEN Parsed(after, left)
             ELSE Try(parse_pipeline_command(after), LAMBDA right :
                      parse_compound_list_from(right.self,
                                               Joined(left, separator_at(self), right.value),
                                               terminators))

parse_compound_list(self, terminators) ==
    Try(parse_pipeline_command(skip_newlines(self)), LAMBDA left :
        parse_compound_list_from(left.self, left.value, terminators))

\* the end of parse_if_command: the optional else part, and fi
parse_else(self, condition, then_part, elif_parts) ==
    IF check(self, "Else")
    THEN Try(parse_compound_list(skip_newlines(parser_advance(self)), {"Fi"}), LAMBDA body :
         Try(expect(body.self, "Fi"), LAMBDA fi :
             Parsed(fi.self, IfCommand(condition, then_part, elif_parts, <<body.value>>))))
    ELSE Try(expect(self, "Fi"), LAMBDA fi :
             Parsed(fi.self, IfCommand(condition, then_part, elif_parts, <<>>)))

\* the loop over `elif` in parse_if_command, and the rest of the function
parse_elifs(self, condition, then_part, elif_parts) ==
    IF check(self, "Elif")
    THEN Try(parse_compound_list(skip_newlines(parser_advance(self)), {"Then"}),
             LAMBDA elif_cond :
         Try(expect(elif_cond.self, "Then"), LAMBDA then :
         Try(parse_compound_list(skip_newlines(then.self), {"Elif", "Else", "Fi"}),
             LAMBDA elif_body :
             parse_elifs(elif_body.self, condition, then_part,
                         Append(elif_parts, <<elif_cond.value, elif_body.value>>)))))
    ELSE parse_else(self, condition, then_part, elif_parts)

parse_if_command(self) ==
    Try(expect(self, "If"), LAMBDA if :
    Try(parse_compound_list(skip_newlines(if.self), {"Then"}), LAMBDA condition :
    Try(expect(condition.self, "Then"), LAMBDA then :
    Try(parse_compound_list(skip_newlines(then.self), {"Elif", "Else", "Fi"}),
        LAMBDA then_part :
        parse_elifs(then_part.self, condition.value, then_part.value, <<>>)))))

\* `do` compound_list `done`, in parse_while_command, parse_until_command
\* and parse_for_command
do_group(self) ==
    Try(expect(self, "Do"), LAMBDA do :
    Try(parse_compound_list(skip_newlines(do.self), {"Done"}), LAMBDA body :
    Try(expect(body.self, "Done"), LAMBDA done :
        Parsed(done.self, body.value))))

parse_while_command(self) ==
    Try(expect(self, "While"), LAMBDA while :
    Try(parse_compound_list(skip_newlines(while.self), {"Do"}), LAMBDA condition :
    Try(do_group(condition.self), LAMBDA body :
        Parsed(body.self, WhileCommand(condition.value, body.value)))))

parse_until_command(self) ==
    Try(expect(self, "Until"), LAMBDA until :
    Try(parse_compound_list(skip_newlines(until.self), {"Do"}), LAMBDA condition :
    Try(do_group(condition.self), LAMBDA body :
        Parsed(body.self, UntilCommand(condition.value, body.value)))))

\* while self.check(&TokenKind::Word) { words.push(self.advance().value.clone()) }
RECURSIVE for_words(_, _)
for_words(self, words) ==
    IF check(self, "Word")
    THEN for_words(parser_advance(self), Append(words, current(self).value))
    ELSE Parsed(self, words)

\* the words of parse_for_command: those after `in`, or none
for_list(self) ==
    IF check(self, "In") THEN for_words(parser_advance(self), <<>>) ELSE Parsed(self, <<>>)

parse_for_command(self) ==
    Try(expect(self, "For"), LAMBDA for :
    Try(expect(for.self, "Word"), LAMBDA var_token :
    Try(for_list(skip_newlines(var_token.self)), LAMBDA words :
    Try(do_group(skip_newlines(IF check(words.self, "Semicolon")
                               THEN parser_advance(words.self) ELSE words.self)),
        LAMBDA body :
        Parsed(body.self, ForCommand(var_token.value.value, words.value, body.value))))))

\* the loop over the patterns of one clause of a case command
RECURSIVE parse_patterns(_, _)
parse_patterns(self, patterns) ==
    Try(expect(self, "Word"), LAMBDA pattern :
        IF check(pattern.self, "Pipe")
        THEN parse_patterns(parser_advance(pattern.self),
                            Append(patterns, pattern.value.value))
        ELSE Parsed(pattern.self, Append(patterns, pattern.value.value)))

\* the loop over the clauses in parse_case_command, and the rest of the function
parse_clauses(self, word, cases) ==
    IF check(self, "Esac")
    THEN Parsed(parser_advance(self), CaseCommand(word, cases))
    ELSE Try(parse_patterns(IF check(self, "LeftParen") THEN parser_advance(self) ELSE self,
                            <<>>), LAMBDA patterns :
         Try(expect(patterns.self, "RightParen"), LAMBDA paren :
         Try(parse_list(skip_newlines(paren.self)), LAMBDA body :
             parse_clauses(skip_newlines(IF check(body.self, "Semicolon")
                                         THEN parser_advance(parser_advance(body.self))
                                         ELSE body.self),
                           word, Append(cases, CaseClause(patterns.value, body.value))))))

parse_case_command(self) ==
    Try(expect(self, "Case"), LAMBDA case :
    Try(expect(case.self, "Word"), LAMBDA word_token :
    Try(expect(skip_newlines(word_token.self), "In"), LAMBDA in :
        parse_clauses(skip_newlines(in.self), word_token.value.value, <<>>))))

parse_subshell(self) ==
    Try(expect(self, "LeftParen"), LAMBDA open :
    Try(parse_list(skip_newlines(open.self)), LAMBDA cmd :
    Try(expect(cmd.self, "RightParen"), LAMBDA close :
        Parsed(close.self, Subshell(cmd.value)))))

\* the loop of parse_group_command, and the rest of the function
parse_group_from(self, commands) ==
    IF check(self, "RightBrace") THEN Parsed(parser_advance(self), Group(commands))
    ELSE Try(parse_list(self), LAMBDA cmd :
             parse_group_from(skip_newlines(cmd.self), Append(commands, cmd.value)))

parse_group_command(self) ==
    Try(expect(self, "LeftBrace"), LAMBDA open :
        parse_group_from(skip_newlines(open.self), <<>>))

\* the optional `()` after the name in parse_function_def
function_parens(self) ==
    IF check(self, "LeftParen") THEN expect(parser_advance(self), "RightParen")
    ELSE Parsed(self, <<>>)

parse_function_def(self) ==
    Try(expect(self, "Function"), LAMBDA function :
    Try(expect(function.self, "Word"), LAMBDA name_token :
    Try(function_parens(name_token.self), LAMBDA parens :
    Try(parse_group_command(skip_newlines(parens.self)), LAMBDA body :
        Parsed(body.self, FunctionDef(name_token.value.value, body.value))))))

\* what parse() returns: the commands, a syntax error, or the abort of the process
Commands(cmds) == [ok |-> TRUE, commands |-> cmds]

SyntaxError(r) == [ok |-> FALSE, panic |-> r.panic, err |-> r.err]

\* the loop of parse()
RECURSIVE parse_from(_, _)
parse_from(self, cmds) ==
    IF is_at_end(self) THEN Commands(cmds)
    ELSE CHOOSE out \in { IF r.ok
                          THEN parse_from(skip_newlines(r.self), Append(cmds, r.value))
                          ELSE SyntaxError(r) : r \in {parse_list(self)} } : TRUE

parse(self) == parse_from(skip_newlines(self), <<>>)

(***************************************************************************)
(* The lexer on every short text: a text is typed character by character   *)
(* and handed to tokenize().                                               *)
(***************************************************************************)
\* the characters of the typed texts
Chars == {"a", "1", " ", "\n", ";", "|", "&", ">", "<", "-", "#", "\"", "'",
          "$", "{", "}", "=", "\\"}

\* the characters of the longer typed texts
CoreChars == {"a", " ", "\n", "$", "{", "}"}

LexInit ==
    /\ Init
    /\ text = <<>>

Type(c) ==
    /\ lexed = NotRun
    /\ \/ Len(text) < MaxLen
       \/ /\ Len(text) < MaxLong
          /\ c \in CoreChars
          /\ \A i \in 1..Len(text) : text[i] \in CoreChars
    /\ text' = Append(text, c)
    /\ UNCHANGED <<env_vars, last_exit_status, pc, command, result, log, assigned,
                   lexed, parsed, typed>>

TypeChar == \E c \in Chars : Type(c)

\* Lexer::new(input).tokenize()
Tokenize ==
    /\ lexed = NotRun
    /\ lexed' = tokenize(lexer_new(text))
    /\ UNCHANGED <<env_vars, last_exit_status, pc, command, result, log, assigned,
                   text, parsed, typed>>

LexNext ==
    \/ TypeChar
    \/ Tokenize

LexSpec == LexInit /\ [][LexNext]_vars

(***************************************************************************)
(* The parser on the tokens of every short text: a text is typed piece by  *)
(* piece, all pieces from one vocabulary, handed to tokenize() and its     *)
(* tokens to parse() or, for a text of the compound vocabulary, to         *)
(* parse_compound_list() with one of the sets of terminators the parser    *)
(* calls it with.                                                          *)
(***************************************************************************)
\* lists and pipelines
ListWords ==
    { <<"a", " ">>, <<"|", " ", "a", " ">>, <<";", " ">>, <<"&", "&", " ">>,
      <<"|", "|", " ">>, <<"&", " ">>, <<"\n">> }

\* redirections
RedirectionWords ==
    { <<"a", " ">>, <<"2">>, <<">">>, <<"&">>, <<"1">>, <<"-">>, <<" ">> }

\* compound commands and their bodies
CompoundWords ==
    { <<"a", " ">>, <<";", " ">>, <<"\n">>, <<"|", " ">>,
      <<"i", "f", " ", "a", ";", " ", "t", "h", "e", "n", " ">>, <<"f", "i", " ">>,
      <<"w", "h", "i", "l", "e", " ", "a", ";", " ", "d", "o", " ">>,
      <<"d", "o", "n", "e", " ">> }

\* the pieces of a case command: its head, a clause closed by `;;`, a clause
\* left open, and esac
CaseHead == <<"c", "a", "s", "e", " ", "a", " ", "i", "n", " ">>

ClauseClosed == <<"a", ")", " ", "a", " ", ";", ";", " ">>

ClauseOpen == <<"a", ")", " ", "a", " ">>

Esac == <<"e", "s", "a", "c", " ">>

\* case commands
CaseWords == { CaseHead, ClauseClosed, ClauseOpen, <<"\n">>, Esac }

\* a run of digits beyond the 32-bit range
LongNumber == <<"9", "9", "9", "9", "9", "9", "9", "9", "9", "9">>

\* redirections with long file descriptors
NumberWords == { LongNumber, <<"2">>, <<">">>, <<"a", " ">>, <<" ">> }

Vocabularies == {ListWords, RedirectionWords, CompoundWords, CaseWords, NumberWords}

\* the sets of terminators parse_compound_list is called with
Terminators == { {"Then"}, {"Elif", "Else", "Fi"}, {"Fi"}, {"Do"}, {"Done"} }

TypeWord ==
    /\ lexed = NotRun
    /\ Len(typed) < MaxWords
    /\ \E vocabulary \in Vocabularies :
           /\ \A i \in 1..Len(typed) : typed[i] \in vocabulary
           /\ \E word \in vocabulary :
                  /\ typed' = Append(typed, word)
                  /\ text' = text \o word
    /\ UNCHANGED <<env_vars, last_exit_status, pc, command, result, log, assigned,
                   lexed, parsed>>

\* Lexer::new(input).tokenize() and, on its tokens, Parser::new(tokens).parse()
Parse ==
    /\ lexed = NotRun
    /\ LET tokens == tokenize(lexer_new(text))
       IN  /\ lexed' = tokens
           /\ parsed' = IF tokens.ok
                        THEN [fn |-> "parse", terminators |-> {},
                              r |-> parse(parser_new(tokens.tokens))]
                        ELSE NotRun
    /\ UNCHANGED <<env_vars, last_exit_status, pc, command, result, log, assigned,
                   text, typed>>

\* Lexer::new(input).tokenize() and, on its tokens, parse_compound_list(terminators);
\* the text is what follows the keyword the parser has read before the call,
\* so it is a piece shorter than a whole line
ParseCompoundList ==
    /\ lexed = NotRun
    /\ Len(typed) < MaxWords
    /\ \A i \in 1..Len(typed) : typed[i] \in CompoundWords
    /\ LET tokens == tokenize(lexer_new(text))
       IN  /\ tokens.ok
           /\ lexed' = tokens
           /\ \E terminators \in Terminators :
                  parsed' = [fn |-> "parse_compound_list", terminators |-> terminators,
                             r |-> parse_compound_list(parser_new(tokens.tokens),
                                                       terminators)]
    /\ UNCHANGED <<env_vars, last_exit_status, pc, command, result, log, assigned,
                   text, typed>>

ParseNext ==
    \/ TypeWord
    \/ Parse
    \/ ParseCompoundList

ParseSpec == Init /\ [][ParseNext]_vars

(***************************************************************************)
(* The driving loop (src/src/main.rs): a line is read, trimmed, handed to  *)
(* tokenize(), its tokens to parse(), and every command parse() returns    *)
(* to execute(), one after the other.                                      *)
(***************************************************************************)
\* str::trim
RECURSIVE trim_start(_)
trim_start(chars) ==
    IF chars # <<>> /\ is_whitespace(chars[1]) THEN trim_start(Tail(chars)) ELSE chars

RECURSIVE trim_end(_)
trim_end(chars) ==
    IF chars # <<>> /\ is_whitespace(chars[Len(chars)])
    THEN trim_end(SubSeq(chars, 1, Len(chars) - 1))
    ELSE chars

trim(chars) == trim_end(trim_start(chars))

\* the executor between two commands: its fields
Fields(self) == <<self.env_vars, self.last_exit_status>>

\* one turn of the loop over the commands: the command, the executor before
\* and after it, what execute() returned and what it did
Turn(cmd, self, r) ==
    [ev |-> "executed", command |-> cmd, before |-> Fields(self), res |-> r.res,
     after |-> Fields(r.self), log |-> r.self.log]

\* what the loop over the commands did, and the executor it leaves
Looped(self, turns) == [self |-> self, turns |-> turns]

\* the loop over the commands giving up at the first execution error
RECURSIVE execute_each_until_error(_, _, _)
execute_each_until_error(self, cmds, turns) ==
    IF cmds = <<>> THEN {Looped(self, turns)}
    ELSE UNION { IF r.res.ok
                 THEN execute_each_until_error(
                          Executor(r.self.env_vars, r.self.last_exit_status),
                          Tail(cmds), Append(turns, Turn(cmds[1], self, r)))
                 ELSE {Looped(Executor(r.self.env_vars, r.self.last_exit_status),
                              Append(turns, Turn(cmds[1], self, r)))} :
                 r \in execute(self, cmds[1]) }

\* for command in commands { match executor.execute(&command) { .. } }
RECURSIVE execute_each(_, _, _)
execute_each(self, cmds, turns) ==
    IF cmds = <<>> THEN {Looped(self, turns)}
    ELSE UNION { execute_each(Executor(r.self.env_vars, r.self.last_exit_status),
                              Tail(cmds), Append(turns, Turn(cmds[1], self, r))) :
                 r \in execute(self, cmds[1]) }

\* what parse_and_execute does with the tokens: parse() and, when it returns
\* commands, the loop over them
parse_and_execute(self, toks) ==
    LET r == parse(parser_new(toks))
    IN  IF r.ok THEN { [parsed |-> r, looped |-> l] : l \in execute_each(self, r.commands, <<>>) }
        ELSE { [parsed |-> r, looped |-> Looped(self, <<>>)] }

\* what process_command does with the trimmed line
process_command(self, chars) ==
    LET tokens == tokenize(lexer_new(chars))
    IN  IF tokens.ok
        THEN { [lexed |-> tokens, parsed |-> [fn |-> "parse", terminators |-> {}, r |-> p.parsed],
                looped |-> p.looped] : p \in parse_and_execute(self, tokens.tokens) }
        ELSE { [lexed |-> tokens, parsed |-> NotRun, looped |-> Looped(self, <<>>)] }

\* the events of the turns of a loop, one after the other
RECURSIVE Events(_)
Events(turns) == IF turns = <<>> THEN <<>> ELSE turns[1].log \o Events(Tail(turns))

\* the lines typed at the prompt
Lines ==
    { <<"p">>,
      <<"A", "=", "a">>,
      <<"B", "=", "a">>,
      <<" ", "p", " ", "$", "A", " ">>,
      <<"p", " ", "$", "B">>,
      <<"$", "A">>,
      <<"(", " ", "p", " ", ")", " ", "p">>,
      <<"(", " ", "p", " ", ")", " ", "A", "=", "b">>,
      <<"p", " ", "|", " ", "p">>,
      <<"\"", "p">>,
      <<"p", " ", ";">>,
      <<" ", " ">> }

\* handle_input: one turn of run_repl on a line read
HandleInput(line) ==
    /\ pc = "idle"
    /\ IF trim(line) = <<>> THEN UNCHANGED vars
       ELSE \E done \in process_command(Executor(env_vars, last_exit_status), trim(line)) :
                /\ text' = trim(line)
                /\ lexed' = done.lexed
                /\ parsed' = done.parsed
                /\ log' = done.looped.turns
                /\ env_vars' = done.looped.self.env_vars
                /\ last_exit_status' = done.looped.self.last_exit_status
                /\ assigned' = Rebound(assigned, Events(done.looped.turns), 1)
                /\ UNCHANGED <<pc, command, result, typed>>

ReadLine == \E line \in Lines : HandleInput(line)

ShellNext == ReadLine

ShellSpec == Init /\ [][ShellNext]_vars

(***************************************************************************)
(* The driving loop on lines that hold and-or lists, compound commands and *)
(* negated pipelines.                                                      *)
(***************************************************************************)
ListLines ==
    { <<"a", " ", "&", "&", " ", "b", " ", "|", "|", " ", "c">>,
      <<"a", " ", "|", "|", " ", "b", " ", "&", "&", " ", "c">>,
      <<"a", " ", "&", "&", " ", "b", " ", "&", "&", " ", "c">>,
      <<"a", " ", "|", "|", " ", "b", " ", "|", "|", " ", "c">>,
      <<"A", "=", "b", " ", ";", " ", "(", " ", "p", " ", ")", " ", ";", " ", "p">>,
      <<"p", " ", ";", " ", "b">>,
      <<"i", "f", " ", "p", " ", ";", " ", "t", "h", "e", "n", " ", "b", " ", ";", " ",
        "c", " ", ";", " ", "f", "i">>,
      <<"w", "h", "i", "l", "e", " ", "p", " ", ";", " ", "d", "o", " ", "(", " ", "b",
        " ", ")", " ", ";", " ", "d", "o", "n", "e">>,
      <<"u", "n", "t", "i", "l", " ", "p", " ", ";", " ", "d", "o", " ", "(", " ", "b",
        " ", ")", " ", ";", " ", "d", "o", "n", "e">>,
      <<"f", "o", "r", " ", "A", " ", "i", "n", " ", "a", " ", "b", " ", ";", " ",
        "d", "o", " ", "p", " ", ";", " ", "d", "o", "n", "e">>,
      <<"!", " ", "p">>,
      <<"!", " ", "p", " ", "|", " ", "b">> }

ReadListLine == \E line \in ListLines : HandleInput(line)

ListNext == ReadListLine

ListSpec == Init /\ [][ListNext]_vars

(***************************************************************************)
(* Reading a text and the tokens made of it.                               *)
(***************************************************************************)
Tokenized == lexed # NotRun

\* the token literal values, one after the other
RECURSIVE Literals(_)
Literals(toks) ==
    IF toks = <<>> THEN <<>> ELSE toks[1].value \o Literals(Tail(toks))

\* the characters of a text that are not in a set
RECURSIVE Without(_, _)
Without(chars, dropped) ==
    IF chars = <<>> THEN <<>>
    ELSE IF chars[1] \in dropped THEN Without(Tail(chars), dropped)
    ELSE <<chars[1]>> \o Without(Tail(chars), dropped)

Occurrences(chars, set) == { i \in 1..Len(chars) : chars[i] \in set }

\* kinds and literal values of tokens, without their positions
Shapes(toks) == [i \in 1..Len(toks) |-> <<toks[i].kind, toks[i].value>>]

\* position i of the text is inside an unclosed ${
InExpansion(i) ==
    \E j \in 1..(i - 2) :
        /\ text[j] = "$"
        /\ text[j + 1] = "{"
        /\ \A k \in (j + 2)..(i - 1) : text[k] # "}"

(***************************************************************************)
(* C15.  When tokenize() succeeds the tokens hold exactly one Eof token,   *)
(* the last one; otherwise tokenize() returns a lexical error and no       *)
(* tokens.                                                                 *)
(***************************************************************************)
C15_OneEofLast ==
    Tokenized =>
        IF lexed.ok
        THEN /\ Len(lexed.tokens) >= 1
             /\ \A i \in 1..Len(lexed.tokens) :
                    lexed.tokens[i].kind = "Eof" <=> i = Len(lexed.tokens)
        ELSE DOMAIN lexed = {"ok", "err"}

C15_Witness ==
    /\ Tokenized
    /\ lexed.ok
    /\ Len(lexed.tokens) = 4
    /\ lexed.tokens[3].kind = "Word"
    /\ lexed.tokens[4].kind = "Eof"

(***************************************************************************)
(* C16.  A comment that runs to the end of the text with no newline after  *)
(* it makes no token: tokenize() succeeds and returns the tokens of the    *)
(* text before the comment, followed by Eof.                               *)
(***************************************************************************)
C16_CommentToEndOfInput ==
    Tokenized =>
        \A k \in Occurrences(text, {"#"}) :
            LET before == tokenize(lexer_new(SubSeq(text, 1, k - 1)))
            IN  (/\ Occurrences(SubSeq(text, 1, k - 1), {"\"", "'", "$", "#"}) = {}
                 /\ Occurrences(SubSeq(text, k + 1, Len(text)), {"\n"}) = {}
                 /\ before.ok)
                => /\ lexed.ok
                   /\ Shapes(lexed.tokens) = Shapes(before.tokens)

(***************************************************************************)
(* C17.  An unterminated quote is a lexical error: when a single or double *)
(* quote is opened and never closed, at the start of a word or of the      *)
(* value of an assignment word, tokenize() fails.                          *)
(***************************************************************************)
C17_UnterminatedQuoteFails ==
    (/\ Tokenized
     /\ Cardinality(Occurrences(text, {"\"", "'"})) = 1
     /\ Occurrences(text, {"#", "$", "\\"}) = {})
    => ~lexed.ok

(***************************************************************************)
(* C18 as stated.  For a text without comments or quotes that tokenize()   *)
(* accepts, the token literals one after the other are the text with its   *)
(* whitespace removed.                                                     *)
(***************************************************************************)
C18_RoundTrip ==
    (/\ Tokenized
     /\ lexed.ok
     /\ Occurrences(text, {"#", "\"", "'"}) = {})
    => Literals(lexed.tokens) = Without(text, {" ", "\t", "\r", "\n"})

(***************************************************************************)
(* C18.  For a text without comments or quotes and without a blank inside  *)
(* ${...} that tokenize() accepts, the token literals one after the other  *)
(* are the text with its spaces, tabs and carriage returns removed: a      *)
(* newline is kept, as the literal of its Newline token.                   *)
(***************************************************************************)
C18_RoundTripKeepsNewlines ==
    (/\ Tokenized
     /\ lexed.ok
     /\ Occurrences(text, {"#", "\"", "'"}) = {}
     /\ \A i \in Occurrences(text, {" ", "\t", "\r"}) : ~InExpansion(i))
    => Literals(lexed.tokens) = Without(text, {" ", "\t", "\r"})

C18_Witness ==
    /\ Tokenized
    /\ lexed.ok
    /\ Occurrences(text, {"#", "\"", "'"}) = {}
    /\ Occurrences(text, {" "}) # {}
    /\ Occurrences(text, {"\n"}) # {}
    /\ Occurrences(text, {"$"}) # {}
    /\ Len(lexed.tokens) >= 4
    /\ Literals(lexed.tokens) = Without(text, {" "})

(***************************************************************************)
(* Reading what the parser returned.                                       *)
(***************************************************************************)
\* parse() has returned commands
ParsedCommands == parsed # NotRun /\ parsed.fn = "parse" /\ parsed.r.ok

\* parse_compound_list(terminators) has been called
CompoundListParsed == parsed # NotRun /\ parsed.fn = "parse_compound_list"

\* no List anywhere in a command has an item with separator Pipe
RECURSIVE NoPipeSeparator(_)
NoPipeSeparator(cmd) ==
    LET All(cmds) == \A i \in 1..Len(cmds) : NoPipeSeparator(cmds[i])
    IN  CASE cmd.type = "List" ->
               \A i \in 1..Len(cmd.items) :
                   /\ cmd.items[i].separator # "Pipe"
                   /\ NoPipeSeparator(cmd.items[i].command)
          [] cmd.type = "Pipeline" -> All(cmd.commands)
          [] cmd.type = "If" ->
               /\ NoPipeSeparator(cmd.condition)
               /\ NoPipeSeparator(cmd.then_part)
               /\ \A i \in 1..Len(cmd.elif_parts) :
                      All(cmd.elif_parts[i])
               /\ All(cmd.else_part)
          [] cmd.type \in {"While", "Until"} ->
               NoPipeSeparator(cmd.condition) /\ NoPipeSeparator(cmd.body)
          [] cmd.type \in {"For", "FunctionDef"} -> NoPipeSeparator(cmd.body)
          [] cmd.type = "Case" ->
               \A i \in 1..Len(cmd.cases) : NoPipeSeparator(cmd.cases[i].body)
          [] cmd.type = "Subshell" -> NoPipeSeparator(cmd.command)
          [] cmd.type = "Group" -> All(cmd.commands)
          [] OTHER -> TRUE

\* the indices of the tokens of some kinds, in order
Indices(toks, kinds) ==
    LET Wanted(i) == toks[i].kind \in kinds
    IN  SelectSeq([i \in 1..Len(toks) |-> i], Wanted)

RedirectionOperators ==
    {"Greater", "Less", "GreatGreat", "LessLess", "LessLessDash", "LessAnd",
     "GreatAnd", "LessGreat", "GreatPipe", "AndGreat"}

\* the token kinds after which a command starts
CommandSeparators == {"Semicolon", "Newline", "And", "Or", "Ampersand", "Pipe"}

(***************************************************************************)
(* C11.  No List in what parse() returns, on the tokens of any text, has   *)
(* an item with separator Pipe: `|` is consumed while building a Pipeline. *)
(* The same holds of what parse_compound_list returns.                     *)
(***************************************************************************)
C11_NoPipeInLists ==
    /\ ParsedCommands
         => \A i \in 1..Len(parsed.r.commands) : NoPipeSeparator(parsed.r.commands[i])
    /\ (CompoundListParsed /\ parsed.r.ok) => NoPipeSeparator(parsed.r.value)

C11_Witness ==
    /\ ParsedCommands
    /\ Occurrences(text, {"|"}) # {}
    /\ Len(parsed.r.commands) = 1
    /\ parsed.r.commands[1].type = "List"
    /\ parsed.r.commands[1].items[1].command.type = "Pipeline"
    /\ parsed.r.commands[1].items[1].separator = "Sequential"

(***************************************************************************)
(* C19.  In a redirection, a target that is a bare number parses to        *)
(* Fd(n), a target `-` to Close and any other word to File(path).  Read    *)
(* on a text that parses to one simple command: its redirections are, in   *)
(* order, those of the operator tokens, each with the token after it for   *)
(* its target.                                                             *)
(***************************************************************************)
C19_RedirectionTargets ==
    (/\ ParsedCommands
     /\ Len(parsed.r.commands) = 1
     /\ parsed.r.commands[1].type = "Simple")
    => LET operators == Indices(lexed.tokens, RedirectionOperators)
           redirections == parsed.r.commands[1].redirections
           Target(value) ==
               IF value = <<"-">> THEN Close
               ELSE IF \A i \in 1..Len(value) : is_ascii_digit(value[i])
               THEN Fd(parse_i32(value).value)
               ELSE File(value)
       IN  /\ Len(redirections) = Len(operators)
           /\ \A j \in 1..Len(operators) :
                  redirections[j].target = Target(lexed.tokens[operators[j] + 1].value)

(***************************************************************************)
(* C20.  parse_compound_list stops before a terminator keyword without     *)
(* consuming it.  Where the first terminator at the start of a command     *)
(* comes after words, `|`, `;` and newlines only: when the call succeeds   *)
(* the terminator is the current token, so that a `;` or newline before    *)
(* it has been consumed; and when nothing but newlines comes before the    *)
(* terminator the call reports a syntax error.                             *)
(***************************************************************************)
C20_CompoundListStopsAtTerminator ==
    CompoundListParsed =>
        LET toks == lexed.tokens
            Starts(i) ==
                /\ toks[i].kind \in parsed.terminators
                /\ i = 1 \/ toks[i - 1].kind \in CommandSeparators
            Plain(i) ==
                \A j \in 1..(i - 1) :
                    toks[j].kind \in {"Word", "Pipe", "Semicolon", "Newline"}
        IN  \A k \in 1..Len(toks) :
                (Starts(k) /\ Plain(k) /\ \A j \in 1..(k - 1) : ~Starts(j))
                => /\ parsed.r.ok => parsed.r.self.position = k - 1
                   /\ (\A j \in 1..(k - 1) : toks[j].kind = "Newline") => ~parsed.r.ok

(***************************************************************************)
(* C14.  In the driving loop a failure at one top-level command does not   *)
(* affect the commands after it: every command parse() returned for the    *)
(* line is executed, in order, each on the executor the one before it      *)
(* left, whether or not an earlier one returned an error; a line that      *)
(* fails in the lexer or the parser executes nothing and leaves the        *)
(* executor as it was; and the next line is lexed, parsed and executed     *)
(* like any other, on that executor.                                       *)
(***************************************************************************)
C14_FailuresAreIsolated ==
    [][/\ lexed' = tokenize(lexer_new(text'))
       /\ IF lexed'.ok /\ parse(parser_new(lexed'.tokens)).ok
          THEN LET cmds == parse(parser_new(lexed'.tokens)).commands
                   turns == log'
               IN  /\ parsed'.r.commands = cmds
                   /\ Len(turns) = Len(cmds)
                   /\ \A i \in 1..Len(cmds) :
                          /\ turns[i].command = cmds[i]
                          /\ turns[i].before =
                                 IF i = 1 THEN <<env_vars, last_exit_status>>
                                 ELSE turns[i - 1].after
                          /\ \E r \in execute(Executor(turns[i].before[1],
                                                       turns[i].before[2]), cmds[i]) :
                                 /\ r.res = turns[i].res
                                 /\ Fields(r.self) = turns[i].after
                   /\ <<env_vars', last_exit_status'>> =
                          IF turns = <<>> THEN <<env_vars, last_exit_status>>
                          ELSE turns[Len(turns)].after
          ELSE /\ log' = <<>>
               /\ env_vars' = env_vars
               /\ last_exit_status' = last_exit_status]_vars

C14_Witness ==
    /\ lexed # NotRun
    /\ lexed.ok
    /\ parsed.r.ok
    /\ Len(log) = 2
    /\ ~log[1].res.ok
    /\ log[2].res.ok
    /\ log[2].command.words # <<>>
    /\ \E i \in 1..Len(log[2].log) : log[2].log[i].ev = "launch"
    /\ <<"A">> \in DOMAIN env_vars

(***************************************************************************)
(* Reading the pieces a text was typed from.                               *)
(***************************************************************************)
\* the typed pieces that are not newlines
NotNewlines == SelectSeq(typed, LAMBDA word : word # <<"\n">>)

\* the text is `case a in`, clauses and `esac`, every clause but the last
\* closed by `;;`, with newlines anywhere between the pieces but none after
\* `esac`
WellFormedCase ==
    LET words == NotNewlines
    IN  /\ Len(words) >= 2
        /\ typed[1] = CaseHead
        /\ typed[Len(typed)] = Esac
        /\ \A i \in 2..(Len(words) - 1) :
               \/ words[i] = ClauseClosed
               \/ words[i] = ClauseOpen /\ i = Len(words) - 1

(***************************************************************************)
(* C21.  Lexing then parsing a case command succeeds and gives one Case    *)
(* command with one clause per pattern list, each body closed by `;;`;     *)
(* the last clause may leave `;;` out before `esac`, also when a newline   *)
(* stands between its body and `esac`.                                     *)
(***************************************************************************)
C21_CaseParses ==
    (parsed # NotRun /\ parsed.fn = "parse" /\ WellFormedCase)
    => /\ parsed.r.ok
       /\ Len(parsed.r.commands) = 1
       /\ parsed.r.commands[1] =
              CaseCommand(<<"a">>,
                          [i \in 1..(Len(NotNewlines) - 2) |->
                              CaseClause(<< <<"a">> >>, Run(<<"a">>))])

\* the separators recorded in the Lists of a command, down its first and last items
RECURSIVE Recorded(_)
Recorded(cmd) ==
    IF cmd.type = "List"
    THEN UNION { {cmd.items[i].separator} \cup Recorded(cmd.items[i].command) :
                 i \in 1..Len(cmd.items) }
    ELSE {}

\* the pieces that end a command, and those that separate two commands
CommandEnds == { <<"a", " ">>, <<"|", " ", "a", " ">> }

ListSeparators == { <<";", " ">>, <<"&", "&", " ">>, <<"|", "|", " ">>, <<"&", " ">>, <<"\n">> }

\* the text is a list of commands, each separated from the next, with a
\* separator `;`, `&` or newline after the last one
EndsWithSeparator ==
    /\ Len(typed) >= 2
    /\ typed[1] = <<"a", " ">>
    /\ \A i \in 2..Len(typed) :
           IF typed[i] = <<"a", " ">> THEN typed[i - 1] \in ListSeparators
           ELSE typed[i - 1] \in CommandEnds /\ typed[i] \in ListSeparators \cup CommandEnds
    /\ typed[Len(typed)] \in { <<";", " ">>, <<"&", " ">>, <<"\n">> }

(***************************************************************************)
(* C22.  parse() accepts a well-formed line that ends with a separator     *)
(* after its last command (`cmd ;`, `cmd &`, or `cmd` and a newline) and   *)
(* returns at least one command; a trailing `&` is recorded as the         *)
(* separator Background.                                                   *)
(***************************************************************************)
C22_TrailingSeparatorAccepted ==
    (parsed # NotRun /\ parsed.fn = "parse" /\ EndsWithSeparator)
    => /\ parsed.r.ok
       /\ parsed.r.commands # <<>>
       /\ typed[Len(typed)] = <<"&", " ">>
            => "Background" \in Recorded(parsed.r.commands[Len(parsed.r.commands)])

(***************************************************************************)
(* Reading what the driving loop did with a line.                          *)
(***************************************************************************)
\* the kinds of the tokens, one after the other
Kinds(toks) == [i \in 1..Len(toks) |-> toks[i].kind]

\* the events of the one command the line was parsed to
Entries == log[1].log

\* execute() was called on a command
Ran(cmd) == \E i \in 1..Len(Entries) : Entries[i].ev = "enter" /\ Entries[i].command = cmd

\* what execute() returned for a command
Returned(cmd) ==
    { Entries[i].res : i \in { j \in 1..Len(Entries) :
                                 Entries[j].ev = "return" /\ Entries[j].command = cmd } }

\* a status lets the command after `&&` or `||` run
Satisfies(separator, status) == IF separator = "And" THEN status = 0 ELSE status # 0

(***************************************************************************)
(* C23.  `&&` and `||` have the same precedence and group to the left: a   *)
(* line `a OP1 b OP2 c` parses to a List whose first item is the List of   *)
(* `a OP1 b` with separator OP2 and whose second item is c.  Executing it  *)
(* goes from left to right: b runs iff the status of a satisfies OP1, and  *)
(* c runs iff (a OP1 b) returned a status that satisfies OP2.              *)
(***************************************************************************)
C23_AndOrLeftAssociative ==
    (/\ lexed # NotRun
     /\ lexed.ok
     /\ Len(lexed.tokens) = 6
     /\ \E op1, op2 \in {"And", "Or"} :
            Kinds(lexed.tokens) = <<"Word", op1, "Word", op2, "Word", "Eof">>)
    => LET toks == lexed.tokens
           a == Run(toks[1].value)
           b == Run(toks[3].value)
           c == Run(toks[5].value)
           inner == Joined(a, toks[2].kind, b)
           Place(cmd) == IF cmd = a THEN 1 ELSE IF cmd = b THEN 2 ELSE 3
           runs == { i \in 1..Len(Entries) :
                       Entries[i].ev = "enter" /\ Entries[i].command.type = "Simple" }
       IN  /\ parsed.r.ok
           /\ parsed.r.commands = <<Joined(inner, toks[4].kind, c)>>
           /\ Len(log) = 1
           /\ Ran(a)
           /\ Ran(b) <=> \E r \in Returned(a) : r.ok /\ Satisfies(toks[2].kind, r.status)
           /\ Ran(c) <=> \E r \in Returned(inner) : r.ok /\ Satisfies(toks[4].kind, r.status)
           /\ \A i, j \in runs :
                  i < j => Place(Entries[i].command) < Place(Entries[j].command)

C23_Witness ==
    /\ lexed # NotRun
    /\ lexed.ok
    /\ Kinds(lexed.tokens) = <<"Word", "And", "Word", "Or", "Word", "Eof">>
    /\ parsed.r.ok
    /\ Len(log) = 1
    /\ Ran(Run(<<"a">>)) /\ Ran(Run(<<"b">>)) /\ Ran(Run(<<"c">>))
    /\ Returned(Run(<<"b">>)) = {Ok(1)}
    /\ log[1].res = Ok(0)

(***************************************************************************)
(* C24.  A Simple command with words that all expand and split to nothing  *)
(* (a single word `$A` with A unset) returns status 0, does not call the   *)
(* process launcher, and leaves the last exit status and the persistent    *)
(* variable mapping as they were: the assignments written on its line are  *)
(* not retained.                                                           *)
(***************************************************************************)
C24_EmptyExpansionDoesNothing ==
    [][(/\ pc' = "executed"
        /\ command'.type = "Simple"
        /\ command'.words # <<>>
        /\ expand_words(Executor(env_vars, last_exit_status), command'.words, 1) = <<>>)
       => /\ result' = Ok(0)
          /\ \A i \in 1..Len(log') : log'[i].ev \notin {"launch", "bind"}
          /\ last_exit_status' = last_exit_status
          /\ env_vars' = env_vars]_vars

C24_Witness ==
    /\ Executed("Simple")
    /\ command.words = <<Word(<<"$", "A">>)>>
    /\ command.assignments = <<Assignment(<<"A">>, <<"b">>)>>
    /\ command.redirections = <<>>
    /\ result = Ok(0)
    /\ Launches = {}
    /\ last_exit_status = 1
    /\ <<"A">> \notin DOMAIN env_vars
    /\ <<"B">> \in DOMAIN env_vars

\* the first event of a run of execute() that is the return of an error, or 0
FirstError(entries) ==
    LET errors == { i \in 1..Len(entries) : entries[i].ev = "return" /\ ~entries[i].res.ok }
    IN  IF errors = {} THEN 0 ELSE CHOOSE i \in errors : \A j \in errors : i <= j

(***************************************************************************)
(* C25.  When executing an item of a List, or a condition or body of an    *)
(* If, While, Until or For, returns an error, the enclosing command        *)
(* returns that error at once and executes nothing more: after the first   *)
(* error of a run there are only the returns of the enclosing commands,    *)
(* each with that error.  A line `A ; B` parses to one command, a List, so *)
(* an error in A keeps B from running.  The variables bound before the     *)
(* error stay bound.                                                       *)
(***************************************************************************)
C25_ErrorsPropagate ==
    (lexed # NotRun /\ lexed.ok /\ parsed.r.ok)
    => /\ (\E i \in 1..Len(lexed.tokens) : lexed.tokens[i].kind = "Semicolon")
            => /\ Len(parsed.r.commands) = 1
               /\ Len(log) = 1
       /\ \A t \in 1..Len(log) :
              LET entries == log[t].log
                  k == FirstError(entries)
              IN  /\ log[t].after[1] = Rebound(log[t].before[1], entries, 1)
                  /\ k # 0 =>
                       /\ log[t].res = entries[k].res
                       /\ \A i \in (k + 1)..Len(entries) :
                              /\ entries[i].ev = "return"
                              /\ entries[i].res = entries[k].res

C25_Witness ==
    /\ lexed # NotRun
    /\ lexed.ok
    /\ parsed.r.ok
    /\ Kinds(lexed.tokens) = <<"AssignmentWord", "Semicolon", "LeftParen", "Word",
                               "RightParen", "Semicolon", "Word", "Eof">>
    /\ parsed.r.commands[1].type = "List"
    /\ Len(log) = 1
    /\ ~log[1].res.ok
    /\ log[1].before[1] = <<>>
    /\ FirstError(log[1].log) # 0
    /\ \A i \in 1..Len(log[1].log) : log[1].log[i].ev # "launch"
    /\ <<"A">> \in DOMAIN env_vars
    /\ env_vars[<<"A">>] = <<"b">>

(***************************************************************************)
(* C26.  A leading `!` before one command that is not a pipeline parses to *)
(* a Pipeline with negated = true and that one command; before a pipeline  *)
(* of several commands it sets negated = true on that Pipeline.  Executing *)
(* a negated command therefore returns the error "Pipeline execution not   *)
(* yet implemented" and runs nothing.                                      *)
(***************************************************************************)
C26_NegationMakesPipeline ==
    (/\ lexed # NotRun
     /\ lexed.ok
     /\ Kinds(lexed.tokens) \in { <<"Not", "Word", "Eof">>,
                                  <<"Not", "Word", "Pipe", "Word", "Eof">> })
    => LET toks == lexed.tokens
           words == Indices(toks, {"Word"})
       IN  /\ parsed.r.ok
           /\ parsed.r.commands =
                  << Pipeline(TRUE, [i \in 1..Len(words) |-> Run(toks[words[i]].value)]) >>
           /\ Len(log) = 1
           /\ log[1].res = Err("Pipeline execution not yet implemented")
           /\ \A i \in 1..Len(Entries) : Entries[i].ev \in {"enter", "return"}
           /\ Len(Entries) = 2
           /\ log[1].after = log[1].before

C26_Witness ==
    /\ lexed # NotRun
    /\ lexed.ok
    /\ Kinds(lexed.tokens) = <<"Not", "Word", "Eof">>
    /\ parsed.r.ok
    /\ parsed.r.commands[1].type = "Pipeline"
    /\ parsed.r.commands[1].negated
    /\ parsed.r.commands[1].commands = <<Run(<<"p">>)>>
    /\ ~log[1].res.ok
    /\ last_exit_status = 1

(***************************************************************************)
(* C27.  parse() returns commands or a syntax error on the tokens of every *)
(* text the lexer accepts, and never aborts: a file descriptor too large   *)
(* for 32 bits, as in `9999999999>a`, is reported as a syntax error.       *)
(***************************************************************************)
C27_ParseNeverAborts ==
    (parsed # NotRun /\ parsed.fn = "parse")
    => \/ parsed.r.ok
       \/ ~parsed.r.panic

====
